---- MODULE Spec2Model ----
(***************************************************************************)
(* A model of the distributed core of PRISM's Pipeline class               *)
(* (src/prism/_pipeline.py):                                               *)
(*   - the worker mode context manager (class WorkerMode), specification   *)
(*     Spec;                                                               *)
(*   - the setter of the Pipeline property impl_cut, specification SpecCut;*)
(*   - the implausibility cut-off check Pipeline._do_impl_check,           *)
(*     specification SpecCheck.                                            *)
(* The three specifications share the variables of the module; each one    *)
(* keeps the variables of the other two at their idle values.              *)
(***************************************************************************)
EXTENDS Integers, Sequences, FiniteSets, TLC

\* ------------------------------------------------------------------ bounds
\* Number of worker ranks of the communicator (rank 0 is the controller).
NumWorkers == 2
\* Number of calls the controller dispatches with _make_call in one run.
MaxCalls == 2
\* Number of worker mode sessions (top-level or nested) one rank enters.
MaxSessions == 2
\* The disable-keys are drawn from 0..MaxKey (randint(0, 2**31-1) in the code).
MaxKey == 1
\* Number of broadcast messages the transport buffers per worker: the root of
\* a broadcast runs at most this many messages ahead of a worker.
MaxChan == 1

\* Iterations the emulator holds at most.
MaxEmulI == 2
\* Data points of an emulator iteration at most (n_data_tot).
MaxData == 3
\* Length of a cut-off list handed to the impl_cut setter at most.
MaxCutLen == 3
\* Cut-off values are 0 (the wildcard) or 1..MaxCutVal.
MaxCutVal == 2

\* Samples in the set given to _evaluate_sam_set.
MaxSam == 2

\* Methods called one after the other on all ranks.
MaxOps == 2

\* Model parameters of the ModelLink handed to lnpost.
NPar == 2

\* Steps of the grid of unit space: the unit coordinates are k/UnitScale.
UnitScale == 2

\* Grid points of a projection hypercube.
MaxGrid == 2

\* Samples evaluated in every grid point of a projection (n_hidden_samples).
MaxHidden == 2

\* Assignments and reads made on one ModelLink.
MaxLinkOps == 3

\* Plausible samples an analysis leaves behind at most (n_impl_sam).
MaxImplSam == 3

\* Entries (samples times data points) of the array of univariate
\* implausibility values handed to _do_impl_check at most.
MaxCells == 4

VARIABLES
    \* --- worker mode (class WorkerMode)
    worker_mode,   \* pipe._worker_mode of every rank
    stack,         \* the call stack of every rank, innermost frame last
    chan,          \* per worker: messages broadcast by rank 0, not yet received
    status,        \* per rank: "run", "exc" (exception propagating), "raised"
    n_sess,        \* per rank: number of WorkerMode objects entered so far
    issued,        \* ids of the calls the controller made with _make_call
    executed,      \* per rank: ids of the calls whose exec_fn it started
    sess_key,      \* the key the controller broadcast on entering session i
                   \* (NoKey once the outermost session around it is over)
    \* --- impl_cut setter
    is_controller, \* pipe._is_controller of the modelled process
    emul_i,        \* pipe._emulator._emul_i
    n_data_tot,    \* pipe._emulator._n_data_tot[emul_i]
    n_eval_sam,    \* pipe._n_eval_sam[1:]
    impl_cut,      \* pipe._impl_cut[1:]
    cut_idx,       \* pipe._cut_idx[1:]
    cut_arg,       \* the vector handed to the setter by the last call
    cut_res,       \* outcome of the last call of the setter
    \* --- _do_impl_check
    chk_vals,      \* uni_impl_vals: one row of implausibility values per sample
    chk_cut,       \* self._impl_cut[emul_i]
    chk_idx,       \* self._cut_idx[emul_i]
    chk_out,       \* what the call returned: (impl_check_vals, impl_cut_vals)
    chk_pc,        \* "input", "done" or "IndexError"
    \* --- construct / analyze / run (with emul_i, n_eval_sam, impl_cut, cut_idx)
    ccheck,        \* pipe._emulator._ccheck[1:]: the pending steps per iteration
    n_impl_sam,    \* pipe._n_impl_sam[1:]
    it_call,       \* the call under way: method and arguments
    it_pc,         \* where the call under way is
    it_found,      \* the checkpoint construct found when it checked the state
    it_trace,      \* what the call under way has done so far
    it_res,        \* how the last call ended
    \* --- _evaluate_sam_set
    tr_in,         \* the arguments of the call and what the emulator will give
    tr_pc,         \* per rank: where it is in the method
    tr_i,          \* per rank: the loop variable i
    tr_idx,        \* per rank: sam_idx
    tr_check,      \* impl_check of the controller
    tr_gath,       \* the ranks whose uni_impl_vals the pending gather holds
    tr_chan,       \* per worker: sam_idx broadcasts not yet received
    tr_log,        \* the steps the ranks have carried out so far
    tr_hooks,      \* per rank: the code snippets it has executed, in order
    emul_i_stop,   \* evaluate: per sample, the iteration set by anal_code
    \* --- _get_iteration_data, _evaluate_model (all ranks)
    gd_in,         \* the model's flags, sam_set and n_data of the ranks
    gd_pc,         \* per rank: where it is in _get_iteration_data
    gd_calls,      \* per rank: the calls of the model it made, in order
    gd_chan,       \* per worker: what the controller sent and it has not got
    gd_shard,      \* per rank: the rows of mod_set it received
    gd_saved,      \* the ranks that have saved their model outputs
    \* --- analyze and construct on all ranks
    op_in,         \* the method called and its arguments
    op_pc,         \* per rank: where it is in the method
    op_meta,       \* per rank: its analysis data of the iteration
    op_chan,       \* per worker: broadcasts of the controller not yet received
    op_res,        \* per rank: how the method ended on it
    op_log,        \* the collective calls made so far
    op_n,          \* the number of methods called so far
    impl_sam,      \* pipe._impl_sam of the controller (indices in eval_sam_set)
    \* --- lnpost, the function get_lnpost_fn returns
    ln_in,         \* unit_space, par_set and what the emulator finds of it
    ln_pc,         \* "range", "analyze", "ext" or "done"
    ln_log,        \* what the call has evaluated: "emulator", "ext_lnpost"
    ln_ret,        \* the value returned: "none", "-inf" or "ext_lnpost"
    \* --- Projection._analyze_proj_hcube
    pj_in,         \* per sample of proj_hcube: the iteration whose check it
                   \* fails, 0 if it passes them all
    pj_i,          \* the samples gone through so far (i of the for-loop)
    pj_idx_line,   \* impl_idx_line
    pj_los,        \* line_bin of every grid point analyzed (impl_los * nhs)
    \* --- ModelLink: the properties multi_call and MPI_call
    ml_multi_call, \* self._multi_call
    ml_MPI_call,   \* self._MPI_call
    ml_set,        \* the value last assigned through the setter of MPI_call
    ml_log         \* the assignments and reads made, with their values

wmvars == <<worker_mode, stack, chan, status, n_sess, issued, executed, sess_key>>
cutvars == <<is_controller, emul_i, n_data_tot, n_eval_sam, impl_cut, cut_idx,
             cut_arg, cut_res>>
chkvars == <<chk_vals, chk_cut, chk_idx, chk_out, chk_pc>>
itvars == <<ccheck, n_impl_sam, it_call, it_pc, it_found, it_trace, it_res>>
trvars ==
    <<tr_in, tr_pc, tr_i, tr_idx, tr_check, tr_gath, tr_chan, tr_log, tr_hooks,
      emul_i_stop>>
gdvars == <<gd_in, gd_pc, gd_calls, gd_chan, gd_shard, gd_saved>>
lnvars == <<ln_in, ln_pc, ln_log, ln_ret>>
pjvars == <<pj_in, pj_i, pj_idx_line, pj_los>>
mlvars == <<ml_multi_call, ml_MPI_call, ml_set, ml_log>>
utvars == <<lnvars, pjvars, mlvars>>
opvars == <<op_in, op_pc, op_meta, op_chan, op_res, op_log, op_n, impl_sam>>
vars == <<wmvars, cutvars, chkvars, itvars, trvars, gdvars, opvars, utvars>>

\* ------------------------------------------------------------ general helpers
Min(a, b) == IF a <= b THEN a ELSE b

SeqsUpTo(S, lo, hi) == UNION {[1..n -> S] : n \in lo..hi}

IsPrefix(s, t) == Len(s) <= Len(t) /\ SubSeq(t, 1, Len(s)) = s

\* -------------------------------------------------------------------------
\* Worker mode
\* -------------------------------------------------------------------------
Controller == 0
Workers == 1..NumWorkers
Ranks == 0..NumWorkers
Keys == 0..MaxKey
NoKey == -1

\* The functions the controller dispatches:
\*   leaf    a function that makes no further call;
\*   outer   a function that itself calls _make_call('leaf');
\*   nested  a function that opens a worker mode of its own;
\*   boom    a function that raises an exception on the controller.
Fns == {"leaf", "outer", "nested", "boom"}

\* A broadcast message is the int key or the list [exec_fn, args, kwargs]; the
\* id stands for the arguments that tell one call of a function from another.
KeyMsg(key) == [int |-> TRUE, key |-> key, fn |-> "", id |-> 0]
CallMsg(fn, id) == [int |-> FALSE, key |-> 0, fn |-> fn, id |-> id]
NoMsg == [int |-> FALSE, key |-> 0, fn |-> "", id |-> 0]

\* Frames: a `with pipe.worker_mode:` statement (a WorkerMode object with its
\* key and was_active) or the execution of a dispatched function.
WMFrame(sid) ==
    [k |-> "wm", pc |-> "enter", sid |-> sid, key |-> NoMsg, wa |-> FALSE,
     fn |-> "", id |-> 0]
FnFrame(fn, id, pc) ==
    [k |-> "fn", pc |-> pc, sid |-> 0, key |-> NoMsg, wa |-> FALSE,
     fn |-> fn, id |-> id]

Top(r) == stack[r][Len(stack[r])]
Pop(s) == SubSeq(s, 1, Len(s) - 1)
SetTop(s, f) == [s EXCEPT ![Len(s)] = f]

\* The stack once the frame on top of s has ended: a dispatched function that
\* was only waiting for it (pc "ret") returns as well.
RECURSIVE Return(_)
Return(s) ==
    IF s # <<>> /\ s[Len(s)].k = "fn" /\ s[Len(s)].pc = "ret"
    THEN Return(Pop(s)) ELSE s
At(r, kind, pc) ==
    /\ status[r] = "run"
    /\ stack[r] # <<>>
    /\ Top(r).k = kind
    /\ Top(r).pc = pc

\* comm.bcast(obj, 0) on the root: the object is sent to every worker, in order.
Bcast(msg) == [w \in Workers |-> Append(chan[w], msg)]

\* The root's broadcast returns once the transport has taken the message.
CanBcast == \A w \in Workers : Len(chan[w]) < MaxChan

\* comm.bcast(x, 0) on a worker returns the oldest message not yet received.
RecvMsg(q) == Head(q)

InitWM ==
    /\ worker_mode = [r \in Ranks |-> 0]
    /\ stack = [r \in Ranks |-> <<>>]
    /\ chan = [w \in Workers |-> <<>>]
    /\ status = [r \in Ranks |-> "run"]
    /\ n_sess = [r \in Ranks |-> 0]
    /\ issued = <<>>
    /\ executed = [r \in Ranks |-> <<>>]
    /\ sess_key = <<>>

\* The worker mode variables in the specifications that do not use them.
IdleWM == InitWM

\* Every rank runs the same script: `with pipe.worker_mode:` statements, one
\* after the other, whose body is guarded by `if pipe.is_controller:`.
TopEnter(r) ==
    /\ status[r] = "run"
    /\ stack[r] = <<>>
    /\ n_sess[r] < MaxSessions
    /\ stack' = [stack EXCEPT ![r] = <<WMFrame(n_sess[r] + 1)>>]
    /\ n_sess' = [n_sess EXCEPT ![r] = @ + 1]
    /\ UNCHANGED <<worker_mode, chan, status, issued, executed, sess_key>>
    /\ UNCHANGED <<cutvars, chkvars, itvars, trvars, gdvars, opvars, utvars>>

\* comm.Barrier(): the one of __enter__ and the one that ends __exit__ of an
\* outermost session. All ranks leave the barrier together.
AtBarrier(r) ==
    /\ status[r] = "run"
    /\ stack[r] # <<>>
    /\ Top(r).k = "wm"
    /\ Top(r).pc \in {"enter", "exit_barrier"}

Barrier ==
    /\ \A r \in Ranks : AtBarrier(r)
    /\ stack' = [r \in Ranks |->
                   IF Top(r).pc = "enter"
                   THEN SetTop(stack[r], [Top(r) EXCEPT !.pc = "key"])
                   ELSE Return(Pop(stack[r]))]
    /\ sess_key' = IF Top(Controller).pc = "exit_barrier"
                   THEN [i \in DOMAIN sess_key |-> NoKey] ELSE sess_key
    /\ UNCHANGED <<worker_mode, chan, status, n_sess, issued, executed>>
    /\ UNCHANGED <<cutvars, chkvars, itvars, trvars, gdvars, opvars, utvars>>

\* was_active left at False, whatever _worker_mode is.
WasActiveNever(r) == FALSE

\* self.was_active = bool(self.pipe._worker_mode)
WasActive(r) == worker_mode[r] # 0

\* __enter__ on the controller after the barrier: was_active, the random key,
\* its broadcast, and listen_for_calls, which sets _worker_mode and returns.
EnterKeyCtrl ==
    /\ At(Controller, "wm", "key")
    /\ CanBcast
    /\ \E key \in Keys :
         /\ stack' = [stack EXCEPT ![Controller] =
                        SetTop(@, [Top(Controller) EXCEPT
                                     !.wa = WasActive(Controller),
                                     !.key = KeyMsg(key),
                                     !.pc = "body"])]
         /\ chan' = Bcast(KeyMsg(key))
         /\ sess_key' = Append(sess_key, key)
    /\ worker_mode' = [worker_mode EXCEPT ![Controller] = 1]
    /\ UNCHANGED <<status, n_sess, issued, executed>>
    /\ UNCHANGED <<cutvars, chkvars, itvars, trvars, gdvars, opvars, utvars>>

\* __enter__ on a worker after the barrier: was_active, the key it receives,
\* and the start of listen_for_calls.
EnterKeyWorker(w) ==
    /\ At(w, "wm", "key")
    /\ chan[w] # <<>>
    /\ stack' = [stack EXCEPT ![w] =
                   SetTop(@, [Top(w) EXCEPT
                                !.wa = WasActive(w),
                                !.key = RecvMsg(chan[w]),
                                !.pc = "listen"])]
    /\ chan' = [chan EXCEPT ![w] = Tail(@)]
    /\ worker_mode' = [worker_mode EXCEPT ![w] = 1]
    /\ UNCHANGED <<status, n_sess, issued, executed, sess_key>>
    /\ UNCHANGED <<cutvars, chkvars, itvars, trvars, gdvars, opvars, utvars>>

\* Whether exec_fn raises an exception on rank r.
Raises(fn, r) == fn = "boom" /\ r = Controller

\* _process_call(pipe, exec_fn, args, kwargs) on rank r, whose stack is s when
\* exec_fn starts: leaf runs and returns; outer runs up to its own _make_call;
\* nested runs up to the barrier of the __enter__ of its with-statement; boom
\* raises on the controller and returns on a worker.
ProcessCall(r, s, fn, id) ==
    /\ executed' = [executed EXCEPT ![r] = Append(@, id)]
    /\ status' = IF Raises(fn, r) THEN [status EXCEPT ![r] = "exc"] ELSE status
    /\ n_sess' = IF fn = "nested" THEN [n_sess EXCEPT ![r] = @ + 1] ELSE n_sess
    /\ stack' = [stack EXCEPT ![r] =
         IF fn = "outer" THEN Append(s, FnFrame(fn, id, "inner"))
         ELSE IF fn = "nested"
         THEN Append(Append(s, FnFrame(fn, id, "ret")), WMFrame(n_sess[r] + 1))
         ELSE IF Raises(fn, r) THEN Append(s, FnFrame(fn, id, "raise"))
         ELSE Return(s)]

\* A test that takes every message for the key.
IsDisableKeyAny(msg, key) == TRUE

\* if(msg == self.__key)
IsDisableKey(msg, key) == msg = key

\* A loop that only the outermost session keeps up.
KeepsListeningOutermost(w) == ~Top(w).wa

\* while self.pipe._worker_mode
KeepsListening(w) == worker_mode[w] # 0

\* One turn of the while-loop of listen_for_calls on a worker.
Listen(w) ==
    /\ At(w, "wm", "listen")
    /\ IF ~KeepsListening(w)
       THEN \* the condition of the while-loop is false
            /\ stack' = [stack EXCEPT ![w] =
                           SetTop(@, [Top(w) EXCEPT !.pc = "body"])]
            /\ UNCHANGED <<chan, status, executed, n_sess>>
       ELSE /\ chan[w] # <<>>
            /\ chan' = [chan EXCEPT ![w] = Tail(@)]
            /\ LET msg == RecvMsg(chan[w])
               IN IF IsDisableKey(msg, Top(w).key)
                  THEN /\ stack' = [stack EXCEPT ![w] =
                                      SetTop(@, [Top(w) EXCEPT !.pc = "body"])]
                       /\ UNCHANGED <<status, executed, n_sess>>
                  ELSE IF msg.int
                  THEN \* _process_call(pipe, *msg) cannot unpack an int
                       /\ status' = [status EXCEPT ![w] = "exc"]
                       /\ UNCHANGED <<stack, executed, n_sess>>
                  ELSE ProcessCall(w, stack[w], msg.fn, msg.id)
    /\ UNCHANGED <<worker_mode, issued, sess_key>>
    /\ UNCHANGED <<cutvars, chkvars, itvars, trvars, gdvars, opvars, utvars>>

\* The body of the with-statement on a worker, run once the listening is over:
\* the guard `if pipe.is_controller:` skips it.
WorkerBody(w) ==
    /\ w \in Workers
    /\ At(w, "wm", "body")
    /\ stack' = [stack EXCEPT ![w] = SetTop(@, [Top(w) EXCEPT !.pc = "exit"])]
    /\ UNCHANGED <<worker_mode, chan, status, n_sess, issued, executed, sess_key>>
    /\ UNCHANGED <<cutvars, chkvars, itvars, trvars, gdvars, opvars, utvars>>

\* make_call_workers in the place of make_call: the controller broadcasts the
\* call and does not execute it.
CtrlMakeCallWorkers(fn, ret) ==
    LET id == Len(issued) + 1
    IN /\ worker_mode[Controller] # 0 => CanBcast
       /\ chan' = IF worker_mode[Controller] # 0
                  THEN Bcast(CallMsg(fn, id)) ELSE chan
       /\ issued' = Append(issued, id)
       /\ stack' = [stack EXCEPT ![Controller] =
                      SetTop(@, [Top(Controller) EXCEPT !.pc = ret])]
       /\ UNCHANGED <<executed, status, n_sess>>

\* WorkerMode.make_call(pipe, fn) on the controller, called from a frame that
\* continues at pc `ret`: broadcast the call if worker mode is active, then
\* _process_call.
CtrlMakeCall(fn, ret) ==
    LET id == Len(issued) + 1
    IN /\ worker_mode[Controller] # 0 => CanBcast
       /\ chan' = IF worker_mode[Controller] # 0
                  THEN Bcast(CallMsg(fn, id)) ELSE chan
       /\ issued' = Append(issued, id)
       /\ ProcessCall(Controller,
                      SetTop(stack[Controller],
                             [Top(Controller) EXCEPT !.pc = ret]),
                      fn, id)

\* The calls a function makes in all, itself included.
Cost(fn) == IF fn = "outer" THEN 2 ELSE 1

\* The controller's body of a with-statement dispatches a call ...
CtrlCall(fn) ==
    /\ At(Controller, "wm", "body")
    /\ Len(issued) + Cost(fn) <= MaxCalls
    /\ fn = "nested" => n_sess[Controller] < MaxSessions
    /\ CtrlMakeCall(fn, "body")
    /\ UNCHANGED <<worker_mode, sess_key>>
    /\ UNCHANGED <<cutvars, chkvars, itvars, trvars, gdvars, opvars, utvars>>

\* ... or ends.
CtrlBodyEnd ==
    /\ At(Controller, "wm", "body")
    /\ stack' = [stack EXCEPT ![Controller] =
                   SetTop(@, [Top(Controller) EXCEPT !.pc = "exit"])]
    /\ UNCHANGED <<worker_mode, chan, status, n_sess, issued, executed, sess_key>>
    /\ UNCHANGED <<cutvars, chkvars, itvars, trvars, gdvars, opvars, utvars>>

\* The call self._make_call('leaf') inside the function outer, on the controller.
FnInnerCtrl ==
    /\ At(Controller, "fn", "inner")
    /\ CtrlMakeCall("leaf", "ret")
    /\ UNCHANGED <<worker_mode, sess_key>>
    /\ UNCHANGED <<cutvars, chkvars, itvars, trvars, gdvars, opvars, utvars>>

\* The same call on a worker: in worker mode it receives the call to execute
\* (exec_fn, args, kwargs = pipe._comm.bcast([], 0)).
FnInnerWorker(w) ==
    /\ w \in Workers
    /\ At(w, "fn", "inner")
    /\ LET s == SetTop(stack[w], [Top(w) EXCEPT !.pc = "ret"])
       IN IF worker_mode[w] # 0
          THEN /\ chan[w] # <<>>
               /\ chan' = [chan EXCEPT ![w] = Tail(@)]
               /\ LET msg == RecvMsg(chan[w])
                  IN IF msg.int
                     THEN \* an int cannot be unpacked
                          /\ status' = [status EXCEPT ![w] = "exc"]
                          /\ UNCHANGED <<stack, executed, n_sess>>
                     ELSE ProcessCall(w, s, msg.fn, msg.id)
          ELSE /\ ProcessCall(w, s, "leaf", 0)
               /\ UNCHANGED chan
    /\ UNCHANGED <<worker_mode, issued, sess_key>>
    /\ UNCHANGED <<cutvars, chkvars, itvars, trvars, gdvars, opvars, utvars>>

\* __exit__(None, None, None): the controller broadcasts the key; the session
\* that was not entered in worker mode clears _worker_mode and ends with a
\* barrier.
Exit(r) ==
    /\ At(r, "wm", "exit")
    /\ r = Controller => CanBcast
    /\ chan' = IF r = Controller THEN Bcast(Top(r).key) ELSE chan
    /\ IF ~Top(r).wa
       THEN /\ worker_mode' = [worker_mode EXCEPT ![r] = 0]
            /\ stack' = [stack EXCEPT ![r] =
                           SetTop(@, [Top(r) EXCEPT !.pc = "exit_barrier"])]
       ELSE /\ UNCHANGED worker_mode
            /\ stack' = [stack EXCEPT ![r] = Return(Pop(@))]
    /\ UNCHANGED <<status, n_sess, issued, executed, sess_key>>
    /\ UNCHANGED <<cutvars, chkvars, itvars, trvars, gdvars, opvars, utvars>>

\* __exit__(etype, value, tb) with an active exception: `raise`, at once.
ExitRaise(r) ==
    /\ status[r] = "exc"
    /\ stack[r] # <<>>
    /\ Top(r).k = "wm"
    /\ stack' = [stack EXCEPT ![r] = Pop(@)]
    /\ UNCHANGED <<worker_mode, chan, status, n_sess, issued, executed, sess_key>>
    /\ UNCHANGED <<cutvars, chkvars, itvars, trvars, gdvars, opvars, utvars>>

\* The exception leaves a dispatched function ...
Propagate(r) ==
    /\ status[r] = "exc"
    /\ stack[r] # <<>>
    /\ Top(r).k = "fn"
    /\ stack' = [stack EXCEPT ![r] = Pop(@)]
    /\ UNCHANGED <<worker_mode, chan, status, n_sess, issued, executed, sess_key>>
    /\ UNCHANGED <<cutvars, chkvars, itvars, trvars, gdvars, opvars, utvars>>

\* ... and reaches the caller of the outermost with-statement.
Uncaught(r) ==
    /\ status[r] = "exc"
    /\ stack[r] = <<>>
    /\ status' = [status EXCEPT ![r] = "raised"]
    /\ UNCHANGED <<worker_mode, stack, chan, n_sess, issued, executed, sess_key>>
    /\ UNCHANGED <<cutvars, chkvars, itvars, trvars, gdvars, opvars, utvars>>

\* -------------------------------------------------------------------------
\* Worker mode: properties
\* -------------------------------------------------------------------------
\* The frames of the with-statements on the stack of rank r.
WMFrames(r) == {i \in 1..Len(stack[r]) : stack[r][i].k = "wm"}

\* The controller has entered session sid and is outside its with-statement.
ControllerLeft(sid) ==
    /\ n_sess[Controller] >= sid
    /\ \A i \in WMFrames(Controller) : stack[Controller][i].sid # sid

\* C1: when a call raises on the controller inside a with pipe.worker_mode
\* block, the exit key of the session is still broadcast: in no state is the
\* controller outside the block while a worker listens in that session
\* without the exit key of the session on its way to that worker.
C1_ExitKeyBroadcastOnEveryPath ==
    \A w \in Workers : \A i \in WMFrames(w) :
        LET f == stack[w][i]
        IN (f.pc = "listen" /\ ControllerLeft(f.sid))
              => \E j \in 1..Len(chan[w]) : chan[w][j] = f.key

InSession(r) ==
    \E i \in WMFrames(r) : stack[r][i].pc \in {"listen", "body", "exit"}

\* C3: sessions nest and only the exit of the outermost session clears the
\* listening state: _worker_mode is 1 on a rank as long as the rank is inside
\* any session (so it still is after a nested session has exited), and it
\* turns from 1 to 0 only in the __exit__ of the session that was entered
\* with _worker_mode at 0, which is the outermost one on the stack.
C3_OnlyOutermostExitClears ==
    [][\A r \in Ranks :
          /\ InSession(r)' => worker_mode'[r] = 1
          /\ (worker_mode[r] = 1 /\ worker_mode'[r] = 0) =>
                /\ At(r, "wm", "exit")
                /\ ~Top(r).wa
                /\ WMFrames(r) = {Len(stack[r])}]_vars

\* C3, its case: a nested session (the second one) has exited on every rank,
\* the enclosing one is still open and the workers listen in it.
C3_Witness ==
    /\ \A r \in Ranks :
         /\ n_sess[r] = 2
         /\ Len(stack[r]) = 1
         /\ Top(r).sid = 1
         /\ worker_mode[r] = 1
    /\ \A w \in Workers : Top(w).pc = "listen"
    /\ Top(Controller).pc = "body"

\* C4: a worker leaves the listening loop of a session only by receiving
\* the key the controller broadcast when it entered that session; every
\* other message it receives there is executed as a call and the worker
\* listens on.
C4_OnlyControllerKeyEndsListening ==
    [][\A w \in Workers : \A i \in WMFrames(w) :
          LET f == stack[w][i]
          IN f.pc = "listen" =>
               \/ /\ Len(stack'[w]) >= i
                  /\ stack'[w][i] = f
                  /\ (i = Len(stack[w]) /\ chan[w] # <<>>
                        /\ chan'[w] = Tail(chan[w])) =>
                        /\ ~RecvMsg(chan[w]).int
                        /\ executed'[w] = Append(executed[w], RecvMsg(chan[w]).id)
               \/ /\ i = Len(stack[w])
                  /\ chan[w] # <<>>
                  /\ RecvMsg(chan[w]) = KeyMsg(sess_key[f.sid])
                  /\ chan'[w] = Tail(chan[w])
                  /\ stack'[w] = SetTop(stack[w], [f EXCEPT !.pc = "body"])]_vars

\* C4, its case: a worker has executed a call it received while listening
\* and has then left the loop on receiving the key.
C4_Witness ==
    \E w \in Workers :
        /\ At(w, "wm", "body")
        /\ Top(w).sid = 1
        /\ executed[w] # <<>>

\* The variables of the other two specifications, idle.
IdleCut ==
    /\ is_controller = TRUE
    /\ emul_i = 0
    /\ n_data_tot = 0
    /\ n_eval_sam = <<>>
    /\ impl_cut = <<>>
    /\ cut_idx = <<>>
    /\ cut_arg = <<>>
    /\ cut_res = "none"

IdleCheck ==
    /\ chk_vals = <<>>
    /\ chk_cut = <<>>
    /\ chk_idx = 0
    /\ chk_out = <<>>
    /\ chk_pc = "idle"

\* The variables of construct, analyze and run in the specifications that do
\* not use them: no call is under way.
\* No call has been made yet; no checkpoint has been looked at.
NoCall == [op |-> "none", i |-> 0, analyze |-> FALSE, force |-> FALSE,
           cut |-> <<>>, cfs |-> "", prev |-> FALSE]
NoFound == [exists |-> FALSE, pending |-> {}]

IdleIter ==
    /\ ccheck = <<>>
    /\ n_impl_sam = <<>>
    /\ it_call = NoCall
    /\ it_pc = "idle"
    /\ it_found = NoFound
    /\ it_trace = {}
    /\ it_res = "none"

\* The variables of _evaluate_sam_set in the specifications that do not use
\* them: the method is not called.
IdleTrav ==
    /\ tr_in = <<>>
    /\ tr_pc = <<>>
    /\ tr_i = <<>>
    /\ tr_idx = <<>>
    /\ tr_check = <<>>
    /\ tr_gath = {}
    /\ tr_chan = <<>>
    /\ tr_log = <<>>
    /\ tr_hooks = <<>>
    /\ emul_i_stop = <<>>

IdleData ==
    /\ gd_in = <<>>
    /\ gd_pc = <<>>
    /\ gd_calls = <<>>
    /\ gd_chan = <<>>
    /\ gd_shard = <<>>
    /\ gd_saved = {}

IdleOps ==
    /\ op_in = <<>>
    /\ op_pc = <<>>
    /\ op_meta = <<>>
    /\ op_chan = <<>>
    /\ op_res = <<>>
    /\ op_log = {}
    /\ op_n = 0
    /\ impl_sam = {}

\* The variables of the utility functions in the specifications that do
\* not use them: no function is called.
IdleLnpost ==
    /\ ln_in = <<>>
    /\ ln_pc = "idle"
    /\ ln_log = {}
    /\ ln_ret = "none"

IdleProj ==
    /\ pj_in = <<>>
    /\ pj_i = 0
    /\ pj_idx_line = <<>>
    /\ pj_los = <<>>

IdleLink ==
    /\ ml_multi_call = FALSE
    /\ ml_MPI_call = FALSE
    /\ ml_set = FALSE
    /\ ml_log = <<>>

IdleUtil == IdleLnpost /\ IdleProj /\ IdleLink

IdleRest == IdleData /\ IdleOps /\ IdleUtil

Init == InitWM /\ IdleCut /\ IdleCheck /\ IdleIter /\ IdleTrav /\ IdleRest

Next ==
    \/ \E r \in Ranks : TopEnter(r)
    \/ Barrier
    \/ EnterKeyCtrl
    \/ \E w \in Workers : EnterKeyWorker(w)
    \/ \E w \in Workers : Listen(w)
    \/ \E w \in Workers : WorkerBody(w)
    \/ \E fn \in Fns : CtrlCall(fn)
    \/ CtrlBodyEnd
    \/ FnInnerCtrl
    \/ \E w \in Workers : FnInnerWorker(w)
    \/ \E r \in Ranks : Exit(r)
    \/ \E r \in Ranks : ExitRaise(r)
    \/ \E r \in Ranks : Propagate(r)
    \/ \E r \in Ranks : Uncaught(r)

Spec == Init /\ [][Next]_vars

\* -------------------------------------------------------------------------
\* The setter of Pipeline.impl_cut
\* -------------------------------------------------------------------------
CutVecs == SeqsUpTo(0..MaxCutVal, 1, MaxCutLen)

\* The loop that completes the list with its order check written out;
\* without the check every list is completed.
RECURSIVE CompleteUnchecked(_, _)
CompleteUnchecked(c, i) ==
    IF i > Len(c) THEN [ok |-> TRUE, cut |-> c]
    ELSE IF c[i] = 0 THEN CompleteUnchecked([c EXCEPT ![i] = c[i-1]], i + 1)
    ELSE CompleteUnchecked(c, i + 1)

\* The loop filling a wildcard only when the entry before it was given as a
\* value: a wildcard after a wildcard stays 0.
RECURSIVE CompleteOnce(_, _)
CompleteOnce(c, i) ==
    IF i > Len(c) THEN [ok |-> TRUE, cut |-> c]
    ELSE IF c[i] = 0
    THEN IF i + 1 <= Len(c) /\ c[i+1] = 0
         THEN CompleteOnce([c EXCEPT ![i] = c[i-1]], i + 2)
         ELSE CompleteOnce([c EXCEPT ![i] = c[i-1]], i + 1)
    ELSE IF c[i] > c[i-1] /\ c[i-1] # 0 THEN [ok |-> FALSE, cut |-> c]
    ELSE CompleteOnce(c, i + 1)

\* for i in range(1, len(impl_cut)): a zero takes the value before it, a
\* value higher than a non-zero value before it is an error. c is the list as
\* completed so far, i the position (from 1) the loop is at.
RECURSIVE Complete(_, _)
Complete(c, i) ==
    IF i > Len(c) THEN [ok |-> TRUE, cut |-> c]
    ELSE IF c[i] = 0 THEN Complete([c EXCEPT ![i] = c[i-1]], i + 1)
    ELSE IF c[i] > c[i-1] /\ c[i-1] # 0 THEN [ok |-> FALSE, cut |-> c]
    ELSE Complete(c, i + 1)

\* The search counting from 1 where the code counts from 0.
RECURSIVE FirstRealFrom1(_, _)
FirstRealFrom1(red, i) ==
    IF i > Len(red) THEN -1
    ELSE IF red[i] # 0 THEN i
    ELSE FirstRealFrom1(red, i + 1)

\* for i, impl in enumerate(red_impl_cut): the index, from 0, of the first
\* entry that is not 0; -1 when the loop ends normally (the else-branch).
RECURSIVE FirstReal(_, _)
FirstReal(red, i) ==
    IF i > Len(red) THEN -1
    ELSE IF red[i] # 0 THEN i - 1
    ELSE FirstReal(red, i + 1)

\* The list searched in full, beyond the data points of the iteration.
ReducedAll(c) == c

\* impl_cut[:self._emulator._n_data_tot[emul_i]]
Reduced(c) == SubSeq(c, 1, Min(n_data_tot, Len(c)))

\* The cut-offs a finished analysis has left behind for an earlier iteration.
OldCut == <<MaxCutVal>>

\* What the setter can have stored for an iteration of n data points: the
\* pairs (list, index) it derives from the lists it accepts.
Stored(n) ==
    {<<SubSeq(c.cut, FirstReal(SubSeq(c.cut, 1, Min(n, Len(c.cut))), 1) + 1,
              Len(c.cut)),
       FirstReal(SubSeq(c.cut, 1, Min(n, Len(c.cut))), 1)>> :
       c \in {d \in {Complete(v, 2) : v \in CutVecs} :
                d.ok /\ FirstReal(SubSeq(d.cut, 1, Min(n, Len(d.cut))), 1) # -1}}

\* The process before a call of the setter: a worker holds no pipeline data;
\* on the controller the iterations before emul_i are analyzed, and the data
\* of emul_i are as _load_data, construct or analyze have them when they call
\* _set_impl_par: nothing yet (eval = -1, no cut-offs), n_eval_sam only, or
\* all of them, the cut-offs as an earlier call of the setter stored them.
InitCut ==
    /\ is_controller \in BOOLEAN
    /\ emul_i \in 0..MaxEmulI
    /\ n_data_tot \in IF emul_i = 0 THEN {0} ELSE 1..MaxData
    /\ \E eval \in {-1, 0, 1} :
       \E old \in IF eval = -1 THEN {<<>>}
                  ELSE IF eval = 0 THEN {<<>>} \cup Stored(n_data_tot)
                  ELSE Stored(n_data_tot) :
         /\ (emul_i = 0 \/ ~is_controller) => eval = -1
         /\ LET n == IF emul_i = 0 \/ ~is_controller THEN 0 ELSE emul_i - 1
            IN /\ impl_cut = [i \in 1..n |-> OldCut]
                               \o (IF old # <<>> THEN <<old[1]>> ELSE <<>>)
               /\ cut_idx = [i \in 1..n |-> 0]
                               \o (IF old # <<>> THEN <<old[2]>> ELSE <<>>)
               /\ n_eval_sam = [i \in 1..n |-> 1]
                               \o (IF eval >= 0 THEN <<eval>> ELSE <<>>)
    /\ cut_arg = <<>>
    /\ cut_res = "none"

\* The outcome of the setter on the controller for the list v; via tells
\* whether _set_impl_par is the caller.
SetterOutcome(v, via) ==
    IF emul_i = 0 THEN [res |-> "RequestError"]
    ELSE IF emul_i <= Len(n_eval_sam) /\ n_eval_sam[emul_i] # 0 /\ ~via
    THEN [res |-> "RequestError"]
    ELSE LET done == Complete(v, 2)
         IN IF ~done.ok THEN [res |-> "ValueError"]
            ELSE LET idx == FirstReal(Reduced(done.cut), 1)
                 IN IF idx = -1 THEN [res |-> "ValueError"]
                    ELSE [res |-> "stored", idx |-> idx,
                          cut |-> SubSeq(done.cut, idx + 1, Len(done.cut))]

\* pipe.impl_cut = v; one call of the setter is followed from every state
\* the process can be in before it.
SetImplCut(v, via) ==
    /\ cut_res = "none"
    /\ cut_arg' = v
    /\ IF ~is_controller
       THEN /\ cut_res' = "ignored"
            /\ UNCHANGED <<impl_cut, cut_idx>>
       ELSE LET out == SetterOutcome(v, via)
            IN /\ cut_res' = out.res
               /\ IF out.res # "stored"
                  THEN UNCHANGED <<impl_cut, cut_idx>>
                  ELSE IF emul_i <= Len(impl_cut) /\ emul_i <= Len(cut_idx)
                  THEN /\ impl_cut' = [impl_cut EXCEPT ![emul_i] = out.cut]
                       /\ cut_idx' = [cut_idx EXCEPT ![emul_i] = out.idx]
                  ELSE \* IndexError: both are appended
                       /\ impl_cut' =
                            Append(IF emul_i <= Len(impl_cut)
                                   THEN [impl_cut EXCEPT ![emul_i] = out.cut]
                                   ELSE impl_cut, out.cut)
                       /\ cut_idx' = Append(cut_idx, out.idx)
    /\ UNCHANGED <<is_controller, emul_i, n_data_tot, n_eval_sam>>
    /\ UNCHANGED <<wmvars, chkvars, itvars, trvars, gdvars, opvars, utvars>>

InitSetter == InitCut /\ IdleWM /\ IdleCheck /\ IdleIter /\ IdleTrav /\ IdleRest

NextCut == \E v \in CutVecs, via \in BOOLEAN : SetImplCut(v, via)

SpecCut == InitSetter /\ [][NextCut]_vars

\* -------------------------------------------------------------------------
\* The setter of Pipeline.impl_cut: properties
\* -------------------------------------------------------------------------
\* The value of the last entry of v at or before position k that is not 0,
\* or 0 when there is none.
Eff(v, k) ==
    LET J == {j \in 1..k : v[j] # 0}
    IN IF J = {} THEN 0 ELSE v[CHOOSE j \in J : \A i \in J : i <= j]

\* The effective cut-off at position k (from 1) of the stored state of
\* iteration emul_i: a wildcard (0) below cut_idx, the stored value above.
EffStored(k) ==
    IF k <= cut_idx[emul_i] THEN 0 ELSE impl_cut[emul_i][k - cut_idx[emul_i]]

Errors == {"RequestError", "ValueError"}

\* C8: when the setter accepts a list, a zero entry has taken the value of
\* the nearest non-zero entry before it, and a zero entry with no non-zero
\* entry before it is still a wildcard; no entry is lost.
C8_WildcardTakesPrecedingCutoff ==
    cut_res = "stored" =>
        /\ Len(impl_cut[emul_i]) + cut_idx[emul_i] = Len(cut_arg)
        /\ \A k \in 1..Len(cut_arg) :
              cut_arg[k] = 0 => EffStored(k) = Eff(cut_arg, k)

\* C8, its case: the list [0, 2, 0] is accepted and stored as [2, 2] behind
\* one wildcard.
C8_Witness ==
    /\ cut_res = "stored"
    /\ cut_arg = <<0, 2, 0>>
    /\ impl_cut[emul_i] = <<2, 2>>
    /\ cut_idx[emul_i] = 1

\* The list has no entry that is not 0 among its first n_data_tot entries.
NoRealCut(v) == \A k \in 1..Min(n_data_tot, Len(v)) : v[k] = 0

\* C9: on the controller a call of the setter that stores, stores as cut_idx
\* the index (from 0) of the first non-zero entry of the list it was given;
\* a call with a list without a non-zero entry among its first n_data_tot
\* entries ends in an error and leaves impl_cut and cut_idx as they were.
C9_CutIdxIsFirstRealOrError ==
    [][is_controller =>
         /\ cut_res' = "stored" =>
               \E k \in 1..Len(cut_arg') :
                   /\ cut_idx'[emul_i] = k - 1
                   /\ cut_arg'[k] # 0
                   /\ \A j \in 1..(k - 1) : cut_arg'[j] = 0
         /\ NoRealCut(cut_arg') =>
               /\ cut_res' \in Errors
               /\ impl_cut' = impl_cut
               /\ cut_idx' = cut_idx]_vars

\* C9, its case: [0, 0, 0] is refused by a pipeline that holds cut-offs of an
\* earlier call.
C9_Witness ==
    /\ cut_arg = <<0, 0, 0>>
    /\ cut_res = "ValueError"
    /\ emul_i >= 1
    /\ Len(impl_cut) = emul_i

\* A non-zero entry of v is higher than the effective non-zero cut-off before.
HasRise(v) ==
    \E i \in 2..Len(v) :
        v[i] # 0 /\ Eff(v, i - 1) # 0 /\ v[i] > Eff(v, i - 1)

NonIncreasing(c) == \A i, j \in 1..Len(c) : i < j => c[i] >= c[j]

\* C10: on the controller a call of the setter with a list in which a
\* non-zero entry is higher than the effective non-zero cut-off before it
\* ends in an error and leaves impl_cut and cut_idx as they were; the list a
\* call stores is non-increasing.
C10_RisingCutoffRejected ==
    [][is_controller =>
         /\ HasRise(cut_arg') =>
               /\ cut_res' \in Errors
               /\ impl_cut' = impl_cut
               /\ cut_idx' = cut_idx
         /\ cut_res' = "stored" => NonIncreasing(impl_cut'[emul_i])]_vars

\* C10, its case: [1, 0, 2] is refused: 2 is higher than the 1 the wildcard
\* before it has taken.
C10_Witness ==
    /\ cut_arg = <<1, 0, 2>>
    /\ cut_res = "ValueError"
    /\ emul_i >= 1
    /\ Len(impl_cut) = emul_i

\* -------------------------------------------------------------------------
\* Pipeline._do_impl_check
\* -------------------------------------------------------------------------
\* Univariate implausibility values: non-negative, the largest above every
\* cut-off.
ImplVals == 0..(MaxCutVal + 1)

\* np.sort(row): ascending, by insertion.
RECURSIVE Insert(_, _)
Insert(x, s) ==
    IF s = <<>> THEN <<x>>
    ELSE IF x <= Head(s) THEN <<x>> \o s
    ELSE <<Head(s)>> \o Insert(x, Tail(s))

RECURSIVE Sort(_)
Sort(row) == IF row = <<>> THEN <<>> ELSE Insert(Head(row), Sort(Tail(row)))

\* np.flip(row, axis=-1)
Flip(row) == [j \in 1..Len(row) |-> row[Len(row) + 1 - j]]

\* np.flip(np.sort(uni_impl_vals, axis=-1), axis=-1)
SortedImplVals(vals) == [s \in 1..Len(vals) |-> Flip(Sort(vals[s]))]

\* sorted_impl_vals.T: one row per data point, one entry per sample.
Transpose(m) == [j \in 1..Len(m[1]) |-> [s \in 1..Len(m) |-> m[s][j]]]

\* The transposed array without its first row and without a look at idx.
ExtractAll(t, idx) == t

\* sorted_impl_vals.T[self._cut_idx[emul_i]:]
Extract(t, idx) == SubSeq(t, idx + 1, Len(t))

\* A value is plausible when it lies above the cut-off.
PlausibleAbove(v, cut_val) == v >= cut_val

\* impl_vals <= cut_val
Plausible(v, cut_val) == v <= cut_val

\* The new check values of all samples, plausible before or not.
RecheckAll(check, impl_vals, cut_val) ==
    [s \in 1..Len(check) |-> Plausible(impl_vals[s], cut_val)]

\* impl_check_vals[sam_idx] = (impl_vals[sam_idx] <= cut_val): only the
\* samples that are still plausible get a new value.
Recheck(check, impl_vals, cut_val) ==
    [s \in 1..Len(check) |->
        IF check[s] THEN Plausible(impl_vals[s], cut_val) ELSE check[s]]

\* The for-loop over zip(extracted_impl_vals, self._impl_cut[emul_i]) from
\* its k-th pair on; it breaks when no sample is left plausible.
RECURSIVE Scan(_, _, _, _)
Scan(extracted, cut, k, check) ==
    IF k > Min(Len(extracted), Len(cut)) THEN check
    ELSE LET new == Recheck(check, extracted[k], cut[k])
         IN IF \A s \in 1..Len(new) : ~new[s] THEN new
            ELSE Scan(extracted, cut, k + 1, new)

\* _do_impl_check(emul_i, uni_impl_vals) with cut-offs cut and cut_idx idx.
DoImplCheck(vals, cut, idx) ==
    LET extracted == Extract(Transpose(SortedImplVals(vals)), idx)
    IN IF extracted = <<>>
       THEN [pc |-> "IndexError"]   \* extracted_impl_vals[0]
       ELSE [pc |-> "done",
             check |-> Scan(extracted, cut, 1, [s \in 1..Len(vals) |-> TRUE]),
             cut |-> extracted[1]]

\* The arrays of at most MaxCells values: n_sam rows of n_data values.
ImplArrays(n_data) ==
    UNION {[1..n_sam -> [1..n_data -> ImplVals]] :
             n_sam \in {n \in 1..MaxCells : n * n_data <= MaxCells}}

\* The controller before a call: the cut-offs and cut_idx of the iteration
\* are as the setter stores them for an iteration of n_data data points.
InitCheck ==
    \E n_data \in 1..MaxData :
        /\ chk_vals \in ImplArrays(n_data)
        /\ \E st \in Stored(n_data) : chk_cut = st[1] /\ chk_idx = st[2]
        /\ chk_out = <<>>
        /\ chk_pc = "input"

\* The call self._do_impl_check(i, uni_impl_vals) of _evaluate_sam_set.
ImplCheck ==
    /\ chk_pc = "input"
    /\ \E out \in {DoImplCheck(chk_vals, chk_cut, chk_idx)} :
          /\ chk_pc' = out.pc
          /\ chk_out' = IF out.pc = "done"
                        THEN [check |-> out.check, cut |-> out.cut]
                        ELSE <<>>
    /\ UNCHANGED <<chk_vals, chk_cut, chk_idx>>
    /\ UNCHANGED <<wmvars, cutvars, itvars, trvars, gdvars, opvars, utvars>>

\* The list is one the setter stores: no wildcard, no cut-off above the one
\* before it.
IsStoredCut(c) ==
    \A i \in 1..Len(c) : c[i] # 0 /\ (i > 1 => c[i] <= c[i - 1])

\* The same samples are analyzed again after cut-off k of the iteration has
\* been set to a lower value.
Tighten(k) ==
    /\ chk_pc \in {"done", "tightened"}
    /\ k <= Len(chk_cut)
    /\ LET lower == [chk_cut EXCEPT ![k] = chk_cut[k] - 1]
       IN /\ IsStoredCut(lower)
          /\ chk_cut' = lower
          /\ \E out \in {DoImplCheck(chk_vals, lower, chk_idx)} :
                /\ chk_pc' = IF out.pc = "done" THEN "tightened" ELSE out.pc
                /\ chk_out' = IF out.pc = "done"
                              THEN [check |-> out.check, cut |-> out.cut]
                              ELSE <<>>
    /\ UNCHANGED <<chk_vals, chk_idx>>
    /\ UNCHANGED <<wmvars, cutvars, itvars, trvars, gdvars, opvars, utvars>>

InitChecker == InitCheck /\ IdleWM /\ IdleCut /\ IdleIter /\ IdleTrav /\ IdleRest

NextCheck ==
    \/ ImplCheck
    \/ \E k \in 1..MaxCutLen : Tighten(k)

SpecCheck == InitChecker /\ [][NextCheck]_vars

\* -------------------------------------------------------------------------
\* Pipeline._do_impl_check: properties
\* -------------------------------------------------------------------------
Returned == chk_pc \in {"done", "tightened"}

\* The k-th largest value of a row, by counting: fewer than k of its values
\* are above it and at least k are not below it.
KthLargest(row, k) ==
    CHOOSE x \in {row[j] : j \in 1..Len(row)} :
        /\ Cardinality({j \in 1..Len(row) : row[j] > x}) < k
        /\ Cardinality({j \in 1..Len(row) : row[j] >= x}) >= k

\* The check of one sample on its own, over all its cut-offs.
NaivePass(row, cut, idx) ==
    \A k \in 0..(Min(Len(cut), Len(row) - idx) - 1) :
        KthLargest(row, idx + k + 1) <= cut[k + 1]

\* C5: what _do_impl_check returns is what the check of every sample on its
\* own gives: a sample passes exactly when, for every k below the smaller of
\* the number of stored cut-offs and n_data - cut_idx, its (cut_idx+k+1)-th
\* largest value is not above cut-off k, and its cut-off value is its
\* (cut_idx+1)-th largest value.
C5_ScanEqualsNaiveCheck ==
    Returned =>
        /\ Len(chk_out.check) = Len(chk_vals)
        /\ Len(chk_out.cut) = Len(chk_vals)
        /\ \A s \in 1..Len(chk_vals) :
              /\ chk_out.check[s] = NaivePass(chk_vals[s], chk_cut, chk_idx)
              /\ chk_out.cut[s] = KthLargest(chk_vals[s], chk_idx + 1)

\* C5, its case: of two samples checked together against the cut-offs
\* [2, 1], one passes with a value equal to its cut-off and the other fails
\* at the second cut-off only.
C5_Witness ==
    /\ chk_pc = "done"
    /\ chk_vals = <<<<1, 2>>, <<2, 2>>>>
    /\ chk_cut = <<2, 1>>
    /\ chk_idx = 0
    /\ chk_out.check = <<TRUE, FALSE>>

\* C6: the cut-off value returned for a sample is its (cut_idx+1)-th largest
\* value, whether the sample passes, is rejected at the first cut-off or is
\* rejected at a later one, and whether or not the scan stopped early.
C6_CutValueAtFirstRealCutoff ==
    Returned =>
        \A s \in 1..Len(chk_vals) :
            LET row == chk_vals[s]
                val == chk_out.cut[s]
            IN /\ \E j \in 1..Len(row) : row[j] = val
               /\ Cardinality({j \in 1..Len(row) : row[j] > val}) <= chk_idx
               /\ Cardinality({j \in 1..Len(row) : row[j] >= val}) > chk_idx

\* C6, its case: behind one wildcard a sample with the values 3, 2, 2 is
\* rejected at the second cut-off; its cut-off value is 2, neither its
\* largest value nor a value of another position.
C6_Witness ==
    /\ chk_pc = "done"
    /\ chk_vals = <<<<2, 3, 2>>>>
    /\ chk_cut = <<2, 1>>
    /\ chk_idx = 1
    /\ chk_out.check = <<FALSE>>
    /\ chk_out.cut = <<2>>

\* C7: when the same values are checked with the same cut_idx against
\* cut-offs none of which is higher than before, no sample passes that
\* failed before.
C7_LowerCutoffsNeverAdmit ==
    [][(/\ Returned
        /\ Returned'
        /\ chk_vals' = chk_vals
        /\ chk_idx' = chk_idx
        /\ Len(chk_cut') = Len(chk_cut)
        /\ \A k \in 1..Len(chk_cut) : chk_cut'[k] <= chk_cut[k])
       => \A s \in 1..Len(chk_vals) :
              chk_out'.check[s] => chk_out.check[s]]_vars

\* C7, its case: the cut-off 2 has been lowered to 1; the sample with the
\* value 2, which passed, fails and the sample with the value 1 still passes.
C7_Witness ==
    /\ chk_pc = "tightened"
    /\ chk_vals = <<<<2>>, <<1>>>>
    /\ chk_cut = <<1>>
    /\ chk_idx = 0
    /\ chk_out.check = <<FALSE, TRUE>>

\* -------------------------------------------------------------------------
\* Pipeline.construct, Pipeline.analyze, Pipeline.run
\* -------------------------------------------------------------------------
\* The steps of the construction of an iteration; an iteration's checkpoint
\* (ccheck) holds those that are pending.
EmulSteps == <<"active_par", "regression", "rsdl_var", "cov_mat">>
AllSteps == {"mod_real_set"} \cup {EmulSteps[k] : k \in 1..Len(EmulSteps)}

\* self._emulator._n_cross_val: the highest count the model lets an analysis
\* find is just enough for the regression.
n_cross_val == MaxImplSam

\* The counts of plausible samples analyze stores: a single sample is removed.
ImplSamCounts == {0} \cup 2..MaxImplSam

\* impl_cut of the parameters dict, used by _set_impl_par(None).
ParImplCut == <<MaxCutVal>>

\* The impl_cut arguments of analyze: None, a list the setter accepts and a
\* list it refuses.
CutArgs == {<<>>, <<1>>, <<0>>}

\* The data appended whether or not the iteration has an entry.
StoreAtAppend(seq, i, data) == Append(seq, data)

\* self._x[emul_i] = data, except IndexError: self._x.append(data)
StoreAt(seq, i, data) ==
    IF i <= Len(seq) THEN [seq EXCEPT ![i] = data] ELSE Append(seq, data)

\* self._emulator._get_emul_i(emul_i, False): None (0) is the iteration after
\* the last one constructed.
GetEmulI(i) == IF i = 0 THEN emul_i + 1 ELSE i

\* c_from_start with the order of its tests changed: an iteration whose
\* checkpoint is not empty is built from the start.
CFromStartAlways(i, force) ==
    IF force THEN "start"
    ELSE IF i > Len(ccheck) THEN "start"
    ELSE IF ccheck[i] # {} THEN "start"
    ELSE IF i <= emul_i THEN "skip"
    ELSE "resume"

\* c_from_start when a finished iteration is not recognised as such.
CFromStartNoSkip(i, force) ==
    IF force THEN "start"
    ELSE IF i > Len(ccheck) THEN "start"
    ELSE IF "mod_real_set" \in ccheck[i] THEN "start"
    ELSE "resume"

\* c_from_start of construct: 1 ("start"), None ("skip") or 0 ("resume").
CFromStart(i, force) ==
    IF force THEN "start"
    ELSE IF i > Len(ccheck) THEN "start"                 \* IndexError
    ELSE IF "mod_real_set" \in ccheck[i] THEN "start"
    ELSE IF i <= emul_i THEN "skip"
    ELSE "resume"

\* A method is called on an idle pipeline: construct(i, analyze=an,
\* force=fc), analyze(impl_cut=cut) or run(i, force=fc); i = 0 stands for None.
ItCall(op, i, an, fc, cut) ==
    /\ it_pc = "idle"
    /\ op = "analyze" => i = 0 /\ an /\ ~fc /\ emul_i >= 1
    /\ op = "construct" => cut = <<>>
    /\ op = "run" => an /\ cut = <<>>
    /\ GetEmulI(i) <= MaxEmulI
    /\ it_call' = [op |-> op, i |-> i, analyze |-> an, force |-> fc,
                   cut |-> cut, cfs |-> "", prev |-> FALSE]
    /\ it_pc' = IF op = "analyze" THEN "analyze" ELSE "check"
    /\ it_found' = NoFound
    /\ it_trace' = {}
    /\ it_res' = "none"
    /\ UNCHANGED <<ccheck, n_impl_sam, cutvars>>
    /\ UNCHANGED <<wmvars, chkvars, trvars, gdvars, opvars, utvars>>

\* The call under way ends with an exception.
ItRaise(err) ==
    /\ it_pc' = "idle"
    /\ it_res' = err

\* The call under way returns; run goes on to project.
ItReturn ==
    /\ it_pc' = IF it_call.op = "run" THEN "project" ELSE "idle"
    /\ it_res' = IF it_call.op = "run" THEN it_res ELSE "ok"

\* construct: the controller checks the state of iteration emul_i.
ConstructCheck ==
    /\ it_pc = "check"
    /\ LET i == GetEmulI(it_call.i)
           cfs == CFromStart(i, it_call.force)
       IN /\ it_call' = [it_call EXCEPT !.i = i, !.cfs = cfs]
          /\ it_found' = IF i <= Len(ccheck)
                         THEN [exists |-> TRUE, pending |-> ccheck[i]]
                         ELSE NoFound
          /\ it_pc' = IF cfs = "skip" THEN "finished"
                      ELSE IF cfs = "start" THEN "start" ELSE "construct"
    /\ UNCHANGED <<ccheck, n_impl_sam, it_trace, it_res, cutvars>>
    /\ UNCHANGED <<wmvars, chkvars, trvars, gdvars, opvars, utvars>>

\* construct: the iteration is already finished; analyze it or show details.
ConstructFinished ==
    /\ it_pc = "finished"
    /\ IF it_call.analyze /\ n_eval_sam[it_call.i] = 0
       THEN /\ it_pc' = "analyze"
            /\ UNCHANGED <<it_trace, it_res>>
       ELSE /\ it_trace' = it_trace \cup {"details"}
            /\ ItReturn
    /\ UNCHANGED <<ccheck, n_impl_sam, it_call, it_found, cutvars>>
    /\ UNCHANGED <<wmvars, chkvars, trvars, gdvars, opvars, utvars>>

\* A new emulator that leaves the later iterations of the old one in place.
CreateNewEmulatorKeep == StoreAt(ccheck, 1, AllSteps)

\* self._emulator._create_new_emulator(): the checkpoints of an emulator
\* whose first iteration is still to be made, all earlier ones removed.
CreateNewEmulator == <<AllSteps>>

\* construct from the start: worker mode is entered; for the first iteration
\* a new emulator is created and the pipeline data are loaded again.
ConstructStart ==
    /\ it_pc = "start"
    /\ IF it_call.i = 1
       THEN /\ ccheck' = CreateNewEmulator
            /\ emul_i' = 0
            /\ n_impl_sam' = <<>>           \* _load_data
            /\ n_eval_sam' = <<>>
            /\ impl_cut' = <<>>
            /\ cut_idx' = <<>>
            /\ it_trace' = it_trace \cup {"worker_mode", "create"}
            /\ it_pc' = "getdata"
       ELSE /\ it_trace' = it_trace \cup {"worker_mode"}
            /\ it_pc' = "prev"
            /\ UNCHANGED <<ccheck, emul_i, n_impl_sam, n_eval_sam, impl_cut,
                           cut_idx>>
    /\ UNCHANGED <<it_call, it_found, it_res>>
    /\ UNCHANGED <<is_controller, n_data_tot, cut_arg, cut_res>>
    /\ UNCHANGED <<wmvars, chkvars, trvars, gdvars, opvars, utvars>>

\* construct from the start, emul_i > 1: the previous iteration is analyzed
\* first when it has not been analyzed yet.
ConstructPrev ==
    /\ it_pc = "prev"
    /\ IF it_call.i - 1 > Len(n_eval_sam)
       THEN ItRaise("IndexError") /\ UNCHANGED it_call
       ELSE IF n_eval_sam[it_call.i - 1] = 0
       THEN /\ it_pc' = "analyze"           \* self._make_call('analyze')
            /\ it_call' = [it_call EXCEPT !.prev = TRUE]
            /\ UNCHANGED it_res
       ELSE /\ it_pc' = "precheck"
            /\ UNCHANGED <<it_call, it_res>>
    /\ UNCHANGED <<ccheck, n_impl_sam, it_found, it_trace, cutvars>>
    /\ UNCHANGED <<wmvars, chkvars, trvars, gdvars, opvars, utvars>>

\* The test of the plausible samples when only their absence is an error.
NoImplSam(i) == n_impl_sam[i - 1] = 0

\* The previous iteration has no plausible samples, or fewer than the
\* regression needs.
TooFewImplSam(i) ==
    n_impl_sam[i - 1] = 0 \/ n_impl_sam[i - 1] < n_cross_val

\* construct from the start, emul_i > 1: the previous iteration must have
\* left enough plausible samples; then the emulator prepares the iteration,
\* deleting it and all following ones when it exists already.
ConstructPrecheck ==
    /\ it_pc = "precheck"
    /\ LET i == it_call.i
       IN IF TooFewImplSam(i)
          THEN /\ ItRaise("RequestError")
               /\ UNCHANGED <<ccheck, n_impl_sam, it_trace, emul_i,
                              n_eval_sam, impl_cut, cut_idx>>
          ELSE /\ it_trace' = it_trace \cup {"prepare"}
               /\ it_pc' = "getdata"
               /\ UNCHANGED it_res
               /\ ccheck' = Append(SubSeq(ccheck, 1, i - 1), AllSteps)
               /\ IF i <= Len(ccheck)
                  THEN \* reload: self._load_data()
                       /\ emul_i' = Min(emul_i, i - 1)
                       /\ n_impl_sam' = SubSeq(n_impl_sam, 1, emul_i')
                       /\ n_eval_sam' = SubSeq(n_eval_sam, 1, emul_i')
                       /\ impl_cut' = SubSeq(impl_cut, 1, emul_i')
                       /\ cut_idx' = SubSeq(cut_idx, 1, emul_i')
                  ELSE UNCHANGED <<emul_i, n_impl_sam, n_eval_sam, impl_cut,
                                   cut_idx>>
    /\ UNCHANGED <<it_call, it_found>>
    /\ UNCHANGED <<is_controller, n_data_tot, cut_arg, cut_res>>
    /\ UNCHANGED <<wmvars, chkvars, trvars, gdvars, opvars, utvars>>

\* _get_iteration_data: the model is evaluated and the realizations are
\* saved, which ends the first step of the construction.
GetIterationData ==
    /\ it_pc = "getdata"
    /\ it_trace' = it_trace \cup {"get_iteration_data", "model"}
    /\ ccheck' = [ccheck EXCEPT ![it_call.i] = @ \ {"mod_real_set"}]
    /\ it_pc' = "construct"
    /\ UNCHANGED <<n_impl_sam, it_call, it_found, it_res, cutvars>>
    /\ UNCHANGED <<wmvars, chkvars, trvars, gdvars, opvars, utvars>>

\* The first step of the emulator's construction that is still pending.
NextStep(pending) ==
    EmulSteps[CHOOSE k \in 1..Len(EmulSteps) :
                /\ EmulSteps[k] \in pending
                /\ \A j \in 1..(k - 1) : EmulSteps[j] \notin pending]

\* self._emulator._construct_iteration(emul_i): one pending step is carried
\* out; after the last one the iteration is the emulator's last iteration.
ConstructIteration ==
    /\ it_pc = "construct"
    /\ it_trace' = it_trace \cup {"construct_iteration"}
    /\ LET i == it_call.i
           left == IF ccheck[i] \ {"mod_real_set"} = {}
                   THEN ccheck[i]
                   ELSE ccheck[i] \ {NextStep(ccheck[i])}
       IN /\ ccheck' = [ccheck EXCEPT ![i] = left]
          /\ IF left \ {"mod_real_set"} = {}
             THEN emul_i' = i /\ it_pc' = "save"
             ELSE UNCHANGED <<emul_i, it_pc>>
    /\ UNCHANGED <<n_impl_sam, it_call, it_found, it_res>>
    /\ UNCHANGED <<is_controller, n_data_tot, n_eval_sam, impl_cut, cut_idx,
                   cut_arg, cut_res>>
    /\ UNCHANGED <<wmvars, chkvars, trvars, gdvars, opvars, utvars>>

\* construct: the analysis data of the new iteration are reset and saved,
\* the implausibility parameters are taken from the parameters dict; then
\* the iteration is analyzed or its details are shown.
ConstructSave ==
    /\ it_pc = "save"
    /\ n_impl_sam' = StoreAt(n_impl_sam, emul_i, 0)
    /\ n_eval_sam' = StoreAt(n_eval_sam, emul_i, 0)
    /\ LET out == SetterOutcome(ParImplCut, TRUE)
       IN /\ out.res = "stored"
          /\ impl_cut' = StoreAt(impl_cut, emul_i, out.cut)
          /\ cut_idx' = StoreAt(cut_idx, emul_i, out.idx)
    /\ IF it_call.analyze
       THEN /\ it_pc' = "analyze"
            /\ it_trace' = it_trace \cup {"reset_analysis"}
            /\ UNCHANGED it_res
       ELSE /\ it_trace' = it_trace \cup {"reset_analysis", "details"}
            /\ ItReturn
    /\ UNCHANGED <<ccheck, it_call, it_found>>
    /\ UNCHANGED <<is_controller, emul_i, n_data_tot, cut_arg, cut_res>>
    /\ UNCHANGED <<wmvars, chkvars, trvars, gdvars, opvars, utvars>>

\* The test of analyze when it looks at the checkpoint's existence only.
NextIterationExists == emul_i + 1 <= Len(ccheck)

\* The test analyze makes first: has the construction of the next iteration
\* got past the model realizations?
NextIterationStarted ==
    /\ emul_i + 1 <= Len(ccheck)
    /\ "mod_real_set" \notin ccheck[emul_i + 1]

\* analyze: the last iteration is analyzed with n_impl samples found
\* plausible, unless the next iteration has been started or impl_cut is
\* refused by the setter.
Analyze(n_impl) ==
    /\ it_pc = "analyze"
    /\ LET out == IF it_call.op = "analyze" /\ it_call.cut # <<>>
                  THEN SetterOutcome(it_call.cut, TRUE)
                  ELSE [res |-> "kept"]
       IN IF NextIterationStarted
          THEN /\ ItRaise("RequestError")
               /\ UNCHANGED <<n_impl_sam, n_eval_sam, impl_cut, cut_idx,
                              it_trace, it_call>>
          ELSE IF out.res \notin {"kept", "stored"}
          THEN /\ ItRaise(out.res)
               /\ UNCHANGED <<n_impl_sam, n_eval_sam, impl_cut, cut_idx,
                              it_trace, it_call>>
          ELSE /\ IF out.res = "stored"
                  THEN /\ impl_cut' = StoreAt(impl_cut, emul_i, out.cut)
                       /\ cut_idx' = StoreAt(cut_idx, emul_i, out.idx)
                  ELSE UNCHANGED <<impl_cut, cut_idx>>
               /\ n_impl_sam' = StoreAt(n_impl_sam, emul_i, n_impl)
               /\ n_eval_sam' = StoreAt(n_eval_sam, emul_i, 1)
               /\ it_trace' = it_trace \cup {"eval_sam_set", "analyze",
                                            "details"}
               /\ it_call' = [it_call EXCEPT !.prev = FALSE]
               /\ IF it_call.prev
                  THEN it_pc' = "precheck" /\ UNCHANGED it_res
                  ELSE ItReturn
    /\ UNCHANGED <<ccheck, it_found>>
    /\ UNCHANGED <<is_controller, emul_i, n_data_tot, cut_arg, cut_res>>
    /\ UNCHANGED <<wmvars, chkvars, trvars, gdvars, opvars, utvars>>

\* run: the projections of the iteration are made after its construction.
Project ==
    /\ it_pc = "project"
    /\ it_trace' = it_trace \cup {"project"}
    /\ it_pc' = "idle"
    /\ it_res' = "ok"
    /\ UNCHANGED <<ccheck, n_impl_sam, it_call, it_found, cutvars>>
    /\ UNCHANGED <<wmvars, chkvars, trvars, gdvars, opvars, utvars>>

\* The process is interrupted in the middle of a call and a new pipeline is
\* made on the same file: what was saved stays.  An iteration whose analysis
\* data were never saved cannot be loaded.
Interrupt ==
    /\ it_pc \notin {"idle", "dead"}
    /\ it_pc' = IF Len(n_eval_sam) < emul_i THEN "dead" ELSE "idle"
    /\ it_res' = IF Len(n_eval_sam) < emul_i THEN "KeyError"
                 ELSE "interrupted"
    /\ UNCHANGED <<ccheck, n_impl_sam, it_call, it_found, it_trace, cutvars>>
    /\ UNCHANGED <<wmvars, chkvars, trvars, gdvars, opvars, utvars>>

\* A pipeline on a file without an emulator.
InitPipeline ==
    /\ is_controller = TRUE
    /\ emul_i = 0
    /\ n_data_tot = 1
    /\ n_eval_sam = <<>>
    /\ impl_cut = <<>>
    /\ cut_idx = <<>>
    /\ cut_arg = <<>>
    /\ cut_res = "none"
    /\ IdleIter

InitIter == InitPipeline /\ IdleWM /\ IdleCheck /\ IdleTrav /\ IdleRest

NextIter ==
    \/ \E op \in {"construct", "analyze", "run"}, i \in 0..MaxEmulI,
          an \in BOOLEAN, fc \in BOOLEAN, cut \in CutArgs :
            ItCall(op, i, an, fc, cut)
    \/ ConstructCheck
    \/ ConstructFinished
    \/ ConstructStart
    \/ ConstructPrev
    \/ ConstructPrecheck
    \/ GetIterationData
    \/ ConstructIteration
    \/ ConstructSave
    \/ \E n_impl \in ImplSamCounts : Analyze(n_impl)
    \/ Project
    \/ Interrupt

SpecIter == InitIter /\ [][NextIter]_vars

\* -------------------------------------------------------------------------
\* Properties of construct, analyze and run
\* -------------------------------------------------------------------------
\* A call of construct or run has checked the state of its iteration.
Checked == it_call.op \in {"construct", "run"} /\ it_call.cfs # ""

\* The model is called, worker mode is entered or the realizations are
\* gathered in the call.
UsesModel ==
    it_trace \cap {"worker_mode", "model", "get_iteration_data", "prepare",
                   "create"} # {}

\* C11: a construct without force that finds a checkpoint of its iteration
\* that is not empty and in which the model realizations are not pending
\* never calls the model nor gathers iteration data: it goes on with the
\* construction of the emulator.
C11_ResumeSkipsModel ==
    (/\ Checked
     /\ ~it_call.force
     /\ it_found.exists
     /\ it_found.pending # {}
     /\ "mod_real_set" \notin it_found.pending)
    => /\ ~UsesModel
       /\ it_call.cfs = "resume"
       /\ it_pc \notin {"start", "prev", "precheck", "getdata", "finished"}

\* A construction is resumed after the realizations and has been finished.
C11_Witness ==
    /\ Checked
    /\ ~it_call.force
    /\ it_found.exists
    /\ it_found.pending # {}
    /\ "mod_real_set" \notin it_found.pending
    /\ "construct_iteration" \in it_trace
    /\ it_pc = "idle"
    /\ it_res = "ok"
    /\ ccheck[it_call.i] = {}

\* C12: when an iteration after the first is built from the start and the
\* previous iteration has no plausible samples, or fewer than n_cross_val,
\* the call ends with an error before the iteration is prepared and before
\* the model is evaluated, and nothing of the iteration is created.
C12_TooFewPlausibleSamplesStops ==
    [][(/\ it_pc = "precheck"
        /\ n_impl_sam[it_call.i - 1] < n_cross_val)
       => /\ it_pc' = "idle"
          /\ it_res' \in {"RequestError", "interrupted"}
          /\ UNCHANGED <<ccheck, emul_i, n_impl_sam, n_eval_sam, impl_cut>>
          /\ it_trace' \cap {"prepare", "model", "get_iteration_data",
                             "construct_iteration"} = {}]_vars

\* The construction of the second iteration was refused because the first
\* one has plausible samples, but too few.
C12_Witness ==
    /\ Checked
    /\ it_call.cfs = "start"
    /\ it_call.i > 1
    /\ it_res = "RequestError"
    /\ "worker_mode" \in it_trace
    /\ n_impl_sam[it_call.i - 1] > 0
    /\ n_impl_sam[it_call.i - 1] < n_cross_val
    /\ Len(ccheck) = it_call.i - 1

\* C13: analyze ends with a request error, before evaluation samples are
\* made and with the stored analysis results unchanged, exactly when a
\* checkpoint of the next iteration exists in which the model realizations
\* are no longer pending; otherwise the iteration is analyzed (again), unless
\* the impl_cut given is refused by its setter.
C13_AnalyzeRefusedOnceNextStarted ==
    [][(it_pc = "analyze" /\ it_res' # "interrupted")
       => IF /\ emul_i + 1 <= Len(ccheck)
             /\ "mod_real_set" \notin ccheck[emul_i + 1]
          THEN /\ it_res' = "RequestError"
               /\ it_pc' = "idle"
               /\ UNCHANGED <<n_impl_sam, n_eval_sam, impl_cut, cut_idx,
                              it_trace, ccheck>>
          ELSE /\ it_res' # "RequestError"
               /\ it_res' = "ValueError"
                    => /\ it_call.cut = <<0>>
                       /\ UNCHANGED <<n_impl_sam, n_eval_sam, impl_cut,
                                      cut_idx, it_trace>>
               /\ it_res' # "ValueError"
                    => /\ {"eval_sam_set", "analyze"} \subseteq it_trace'
                       /\ n_eval_sam'[emul_i] # 0]_vars

\* An iteration that has been analyzed is not analyzed again because the
\* next iteration has its model realizations.
C13_Witness ==
    /\ it_call.op = "analyze"
    /\ it_res = "RequestError"
    /\ it_trace = {}
    /\ emul_i + 1 <= Len(ccheck)
    /\ "mod_real_set" \notin ccheck[emul_i + 1]
    /\ n_eval_sam[emul_i] # 0
    /\ n_impl_sam[emul_i] >= n_cross_val

\* C14: iterations are completed in order: in every state that calls of
\* construct, analyze and run, forced or not, interrupted or not, lead to,
\* an iteration whose checkpoint is empty has only iterations with empty
\* checkpoints before it.
C14_IterationsCompleteInOrder ==
    \A i \in 1..Len(ccheck) :
        ccheck[i] = {} => \A j \in 1..(i - 1) : ccheck[j] = {}

\* The second iteration is complete after an interrupted call and a forced
\* reconstruction.
C14_Witness ==
    /\ Len(ccheck) = 2
    /\ ccheck[1] = {}
    /\ ccheck[2] = {}
    /\ emul_i = 2
    /\ it_call.force
    /\ it_call.i = 2
    /\ it_found.exists
    /\ it_found.pending # {}
    /\ it_res = "ok"

\* What construct does when it builds (part of) an iteration.
Construction ==
    {"worker_mode", "model", "get_iteration_data", "prepare", "create",
     "construct_iteration", "reset_analysis"}

\* C15: a construct without force of an iteration that is fully constructed
\* constructs nothing: no worker mode, no model evaluation, no emulator
\* construction, no reset of the analysis data.  The iteration is analyzed
\* exactly when that was asked for and it has not been analyzed yet;
\* otherwise only its details are shown.
C15_FinishedIterationIsNotRebuilt ==
    [][(/\ Checked'
        /\ ~it_call'.force
        /\ it_found'.exists
        /\ it_found'.pending = {})
       => /\ it_call'.cfs = "skip"
          /\ it_trace' \cap Construction = {}
          /\ ccheck' = ccheck
          /\ emul_i' = emul_i
          /\ (it_pc = "finished" /\ it_res' # "interrupted")
               => IF it_call.analyze /\ n_eval_sam[it_call.i] = 0
                  THEN /\ it_pc' = "analyze"
                       /\ it_call.i = emul_i
                       /\ ~NextIterationStarted
                       /\ it_trace' = {}
                  ELSE /\ it_pc' \in {"idle", "project"}
                       /\ it_trace' = {"details"}
                       /\ UNCHANGED <<n_impl_sam, n_eval_sam, impl_cut,
                                      cut_idx>>]_vars

\* A finished iteration that had not been analyzed was constructed again
\* with analyze set: it was analyzed and not rebuilt.
C15_Witness ==
    /\ it_call.op = "construct"
    /\ it_call.cfs = "skip"
    /\ it_call.analyze
    /\ ~it_call.force
    /\ it_found.exists
    /\ it_found.pending = {}
    /\ it_res = "ok"
    /\ "analyze" \in it_trace
    /\ n_eval_sam[it_call.i] # 0

\* -------------------------------------------------------------------------
\* Pipeline._evaluate_sam_set
\* -------------------------------------------------------------------------
\* sam_idx_full: the indices of the samples of sam_set.
Samples == 1..MaxSam

\* What a rank did: hook or step ev on rank r in iteration i, with the
\* indices of the samples it concerns.
Ev(ev, r, i, set) == [ev |-> ev, r |-> r, i |-> i, set |-> set]

Did(ev, r, i) == \E e \in tr_log : e.ev = ev /\ e.r = r /\ e.i = i

\* The type test that lets every emulator type through.
IsDefaultAlways == TRUE

\* self._emulator._emul_type == 'default'
IsDefault == tr_in.emul_type = "default"

\* The samples evaluated when the index set is not applied to sam_set.
EvalSamSetAll(r) == Samples

\* eval_sam_set = sam_set[sam_idx]: the samples rank r evaluates.
EvalSamSet(r) == tr_idx[r]

\* The loop that goes on with an empty index set.
StopsNever(idx) == FALSE

\* if not sam_idx.size: break
Stops(idx) == idx = {}

\* A barrier that lets a rank through at once.
ArrivedAny(r, i) == TRUE

\* Rank r has reached the Barrier of iteration i.
Arrived(r, i) ==
    \/ tr_i[r] > i
    \/ tr_i[r] = i /\ tr_pc[r] \notin {"pre", "type", "eval", "gather",
                                        "check"}

\* A worker that calls bcast and keeps its own index set.
ReceivedKeep(w) == tr_idx[w]

\* sam_idx = self._comm.bcast(sam_idx, 0) on a worker.
Received(w) == Head(tr_chan[w])

\* Where rank r goes on after it has the index set idx of iteration i.
AfterBcast(i, idx) ==
    IF Stops(idx) \/ i = tr_in.emul_i THEN [pc |-> "post", i |-> i]
    ELSE [pc |-> "eval", i |-> i + 1]

\* pre_code of 'evaluate': emul_i_stop = np.zeros([n_sam], dtype=int)
PreCode == [s \in Samples |-> 0]

\* The assignment made to every sample, evaluated or not.
AnalCodeAll(i, idx) == [s \in Samples |-> i]

\* anal_code of 'evaluate': emul_i_stop[sam_idx] = i
AnalCode(i, idx) ==
    [s \in Samples |-> IF s \in idx THEN i ELSE emul_i_stop[s]]

\* exec(pre_code)
TrPre(r) ==
    /\ tr_pc[r] = "pre"
    /\ tr_pc' = [tr_pc EXCEPT ![r] = "type"]
    /\ tr_log' = tr_log \cup {Ev("pre", r, 0, Samples)}
    /\ UNCHANGED <<tr_in, tr_i, tr_idx, tr_check, tr_gath, tr_chan>>
    /\ tr_hooks' = [tr_hooks EXCEPT ![r] = Append(@, "pre")]
    /\ emul_i_stop' = IF tr_in.exec_code = "evaluate"
                      THEN PreCode ELSE emul_i_stop
    /\ UNCHANGED <<wmvars, cutvars, chkvars, itvars, gdvars, opvars, utvars>>

\* The test of the emulator type: the loop over the iterations is entered,
\* or NotImplementedError is raised.
TrType(r) ==
    /\ tr_pc[r] = "type"
    /\ IF IsDefault
       THEN /\ tr_pc' = [tr_pc EXCEPT ![r] = "eval"]
            /\ tr_i' = [tr_i EXCEPT ![r] = 1]
            /\ UNCHANGED tr_log
       ELSE /\ tr_pc' = [tr_pc EXCEPT ![r] = "raised"]
            /\ tr_log' = tr_log \cup {Ev("NotImplementedError", r, 0, {})}
            /\ UNCHANGED tr_i
    /\ UNCHANGED <<tr_in, tr_idx, tr_check, tr_gath, tr_chan, tr_hooks>>
    /\ UNCHANGED emul_i_stop
    /\ UNCHANGED <<wmvars, cutvars, chkvars, itvars, gdvars, opvars, utvars>>

\* The loop over eval_sam_set: every sample is evaluated in the emulator.
TrEval(r) ==
    /\ tr_pc[r] = "eval"
    /\ tr_pc' = [tr_pc EXCEPT ![r] = "gather"]
    /\ tr_log' = tr_log \cup {Ev("eval", r, tr_i[r], EvalSamSet(r))}
    /\ UNCHANGED <<tr_in, tr_i, tr_idx, tr_check, tr_gath, tr_chan, tr_hooks>>
    /\ UNCHANGED emul_i_stop
    /\ UNCHANGED <<wmvars, cutvars, chkvars, itvars, gdvars, opvars, utvars>>

\* uni_impl_vals = self._comm.gather(uni_impl_vals, 0): a worker sends, the
\* controller waits for what every worker sent.
TrGather(r) ==
    /\ tr_pc[r] = "gather"
    /\ IF r = Controller
       THEN /\ \A w \in Workers : <<w, tr_i[r]>> \in tr_gath
            /\ tr_pc' = [tr_pc EXCEPT ![r] = "check"]
            /\ UNCHANGED tr_gath
       ELSE /\ tr_gath' = tr_gath \cup {<<r, tr_i[r]>>}
            /\ tr_pc' = [tr_pc EXCEPT ![r] = "barrier"]
    /\ tr_log' = tr_log \cup {Ev("gather", r, tr_i[r], {})}
    /\ UNCHANGED <<tr_in, tr_i, tr_idx, tr_check, tr_chan, tr_hooks>>
    /\ UNCHANGED emul_i_stop
    /\ UNCHANGED <<wmvars, cutvars, chkvars, itvars, gdvars, opvars, utvars>>

\* The controller checks the samples it evaluated; those in ok pass:
\* impl_check[sam_idx] = impl_check_vals; sam_idx = sam_idx_full[impl_check].
TrCheck(ok) ==
    /\ tr_pc[Controller] = "check"
    /\ ok \subseteq tr_idx[Controller]
    /\ tr_check' = (tr_check \ tr_idx[Controller]) \cup ok
    /\ tr_idx' = [tr_idx EXCEPT ![Controller] = tr_check']
    /\ tr_pc' = [tr_pc EXCEPT ![Controller] = "barrier"]
    /\ tr_log' = tr_log \cup {Ev("check", Controller, tr_i[Controller],
                                 tr_check')}
    /\ UNCHANGED <<tr_in, tr_i, tr_gath, tr_chan>>
    /\ tr_hooks' = [tr_hooks EXCEPT ![Controller] = Append(@, "anal")]
    /\ emul_i_stop' = IF tr_in.exec_code = "evaluate"
                      THEN AnalCode(tr_i[Controller], tr_idx[Controller])
                      ELSE emul_i_stop
    /\ UNCHANGED <<wmvars, cutvars, chkvars, itvars, gdvars, opvars, utvars>>

\* self._comm.Barrier(): a rank leaves it when every rank has reached it.
TrBarrier(r) ==
    /\ tr_pc[r] = "barrier"
    /\ \A q \in Ranks : Arrived(q, tr_i[r])
    /\ tr_pc' = [tr_pc EXCEPT ![r] = "bcast"]
    /\ tr_log' = tr_log \cup {Ev("barrier", r, tr_i[r], {})}
    /\ UNCHANGED <<tr_in, tr_i, tr_idx, tr_check, tr_gath, tr_chan, tr_hooks>>
    /\ UNCHANGED emul_i_stop
    /\ UNCHANGED <<wmvars, cutvars, chkvars, itvars, gdvars, opvars, utvars>>

\* sam_idx = self._comm.bcast(sam_idx, 0) on the controller: the index set
\* is sent to every worker; the controller goes on.
TrBcast ==
    /\ tr_pc[Controller] = "bcast"
    /\ tr_chan' = [w \in Workers |-> Append(tr_chan[w], tr_idx[Controller])]
    /\ LET to == AfterBcast(tr_i[Controller], tr_idx[Controller])
       IN /\ tr_pc' = [tr_pc EXCEPT ![Controller] = to.pc]
          /\ tr_i' = [tr_i EXCEPT ![Controller] = to.i]
    /\ tr_log' = tr_log \cup {Ev("bcast", Controller, tr_i[Controller],
                                 tr_idx[Controller])}
    /\ UNCHANGED <<tr_in, tr_idx, tr_check, tr_gath, tr_hooks>>
    /\ UNCHANGED emul_i_stop
    /\ UNCHANGED <<wmvars, cutvars, chkvars, itvars, gdvars, opvars, utvars>>

\* sam_idx = self._comm.bcast(sam_idx, 0) on a worker: the index set sent
\* by the controller is received.
TrRecv(w) ==
    /\ w \in Workers
    /\ tr_pc[w] = "bcast"
    /\ tr_chan[w] # <<>>
    /\ tr_idx' = [tr_idx EXCEPT ![w] = Received(w)]
    /\ tr_chan' = [tr_chan EXCEPT ![w] = Tail(@)]
    /\ LET to == AfterBcast(tr_i[w], tr_idx'[w])
       IN /\ tr_pc' = [tr_pc EXCEPT ![w] = to.pc]
          /\ tr_i' = [tr_i EXCEPT ![w] = to.i]
    /\ tr_log' = tr_log \cup {Ev("bcast", w, tr_i[w], tr_idx'[w])}
    /\ UNCHANGED <<tr_in, tr_check, tr_gath, tr_hooks>>
    /\ UNCHANGED emul_i_stop
    /\ UNCHANGED <<wmvars, cutvars, chkvars, itvars, gdvars, opvars, utvars>>

\* exec(post_code) is not guarded by the rank.
RunsPostController(r) == r = Controller

\* The ranks that execute post_code.
RunsPost(r) == TRUE

\* exec(exit_code) without the test of the rank.
RunsExitAny(r) == TRUE

\* if self._is_controller: exec(exit_code)
RunsExit(r) == r = Controller

\* What a rank returns: results as set by the snippets it executed.
Results(r, ran_post, ran_exit) ==
    IF tr_in.exec_code = "analyze" /\ ran_post
    THEN Ev("return", r, tr_i[r], tr_idx[r])         \* sam_set[sam_idx]
    ELSE IF tr_in.exec_code = "project" /\ ran_exit
    THEN Ev("return", r, tr_i[r], tr_check)          \* (impl_check, impl_cut)
    ELSE IF tr_in.exec_code = "evaluate" /\ ran_exit
    THEN Ev("return", r, tr_i[r], tr_check)          \* (..., impl_check)
    ELSE Ev("return_none", r, tr_i[r], {})

\* exec(post_code): 'analyze' sets results = sam_set[sam_idx]; a rank that
\* does not execute the exit code then returns what results holds.
TrPost(r) ==
    /\ tr_pc[r] = "post"
    /\ tr_pc' = [tr_pc EXCEPT ![r] = IF RunsExit(r) THEN "exit" ELSE "done"]
    /\ tr_hooks' = [tr_hooks EXCEPT ![r] = IF RunsPost(r)
                                           THEN Append(@, "post") ELSE @]
    /\ tr_log' = tr_log
         \cup (IF RunsPost(r) THEN {Ev("post", r, tr_i[r], tr_idx[r])}
               ELSE {})
         \cup (IF RunsExit(r) THEN {}
               ELSE {Results(r, RunsPost(r), FALSE)})
    /\ UNCHANGED <<tr_in, tr_i, tr_idx, tr_check, tr_gath, tr_chan>>
    /\ UNCHANGED emul_i_stop
    /\ UNCHANGED <<wmvars, cutvars, chkvars, itvars, gdvars, opvars, utvars>>

\* exec(exit_code): 'project' sets results from impl_check; then the rank
\* returns what results holds.
TrExit(r) ==
    /\ tr_pc[r] = "exit"
    /\ tr_pc' = [tr_pc EXCEPT ![r] = "done"]
    /\ tr_hooks' = [tr_hooks EXCEPT ![r] = Append(@, "exit")]
    /\ tr_log' = tr_log \cup
         {Ev("exit", r, tr_i[r], tr_check),
          Results(r, "post" \in {tr_hooks[r][k] : k \in 1..Len(tr_hooks[r])},
                  TRUE)}
    /\ UNCHANGED <<tr_in, tr_i, tr_idx, tr_check, tr_gath, tr_chan>>
    /\ UNCHANGED emul_i_stop
    /\ UNCHANGED <<wmvars, cutvars, chkvars, itvars, gdvars, opvars, utvars>>

\* Every rank calls _evaluate_sam_set(emul_i, sam_set, exec_code): all
\* samples are marked plausible.
InitEvaluate ==
    /\ \E type \in {"default", "other"}, i \in 1..MaxEmulI,
          code \in {"analyze", "project", "evaluate"} :
            tr_in = [emul_type |-> type, emul_i |-> i, exec_code |-> code]
    /\ tr_pc = [r \in Ranks |-> "pre"]
    /\ tr_i = [r \in Ranks |-> 0]
    /\ tr_idx = [r \in Ranks |-> Samples]
    /\ tr_check = Samples
    /\ tr_gath = {}
    /\ tr_chan = [w \in Workers |-> <<>>]
    /\ tr_log = {}
    /\ tr_hooks = [r \in Ranks |-> <<>>]
    /\ emul_i_stop = [s \in Samples |-> 0]

InitTrav == InitEvaluate /\ IdleWM /\ IdleCut /\ IdleCheck /\ IdleIter /\ IdleRest

NextTrav ==
    \/ \E r \in Ranks : TrPre(r)
    \/ \E r \in Ranks : TrType(r)
    \/ \E r \in Ranks : TrEval(r)
    \/ \E r \in Ranks : TrGather(r)
    \/ \E ok \in SUBSET Samples : TrCheck(ok)
    \/ \E r \in Ranks : TrBarrier(r)
    \/ TrBcast
    \/ \E w \in Workers : TrRecv(w)
    \/ \E r \in Ranks : TrPost(r)
    \/ \E r \in Ranks : TrExit(r)

SpecTrav == InitTrav /\ [][NextTrav]_vars

\* -------------------------------------------------------------------------
\* Properties of _evaluate_sam_set
\* -------------------------------------------------------------------------
\* C16: with an emulator type other than 'default' the traversal raises
\* NotImplementedError on every rank before any evaluation in the emulator,
\* implausibility check, gather, Barrier or bcast; the post and exit code
\* are not run and nothing is returned.
C16_OtherEmulatorTypeFailsFast ==
    tr_in.emul_type # "default"
    => /\ \A e \in tr_log : e.ev \in {"pre", "NotImplementedError"}
       /\ \A r \in Ranks : tr_pc[r] \in {"pre", "type", "raised"}
       /\ \A r \in Ranks :
            tr_pc[r] = "raised" <=> Did("NotImplementedError", r, 0)
       /\ tr_gath = {}
       /\ \A w \in Workers : tr_chan[w] = <<>>
       /\ tr_check = Samples

\* Every rank has raised the error.
C16_Witness ==
    /\ tr_in.emul_type = "other"
    /\ \A r \in Ranks : tr_pc[r] = "raised"
    /\ \A r \in Ranks : Did("NotImplementedError", r, 0)

\* C17 as stated: no rank evaluates samples in iteration i+1 before the
\* controller has checked iteration i and every rank has received the index
\* set of iteration i.
C17_NextEvaluationAfterAllReceived ==
    \A e \in tr_log :
        (e.ev = "eval" /\ e.i > 1)
        => /\ Did("check", Controller, e.i - 1)
           /\ \A r \in Ranks : Did("bcast", r, e.i - 1)

\* C17, amended: the steps of an iteration are ordered: the controller
\* checks it after every rank has evaluated and gathered it, a rank leaves
\* its Barrier after the check, and gets the index set after the Barrier;
\* no rank evaluates samples in iteration i+1 before all this and before
\* it has itself the index set of iteration i.  Other ranks may still be
\* waiting for that index set.
C17_NextEvaluationAfterCheckAndBarrier ==
    \A e \in tr_log :
        /\ e.ev = "check"
             => \A r \in Ranks : Did("eval", r, e.i) /\ Did("gather", r, e.i)
        /\ e.ev = "barrier"
             => /\ Did("check", Controller, e.i)
                /\ \A r \in Ranks : Did("gather", r, e.i)
        /\ e.ev = "bcast"
             => Did("barrier", e.r, e.i) /\ Did("bcast", Controller, e.i)
        /\ (e.ev = "eval" /\ e.i > 1)
             => /\ Did("bcast", e.r, e.i - 1)
                /\ Did("check", Controller, e.i - 1)
                /\ \A r \in Ranks : Did("gather", r, e.i - 1)

\* A worker evaluates the second iteration while another worker has not
\* received the index set of the first one yet.
C17_Witness ==
    \E w \in Workers, v \in Workers :
        /\ Did("eval", w, 2)
        /\ tr_pc[v] = "bcast"
        /\ tr_i[v] = 1
        /\ ~Did("bcast", v, 1)
        /\ Did("barrier", v, 1)

\* C18: a sample is evaluated in iteration i only if it passed the checks
\* of the iterations 1..i-1; the set of plausible samples after a check is
\* contained in the set after every earlier check, and a sample that is
\* marked implausible is never marked plausible again.
C18_OnlyPlausibleSamplesEvaluated ==
    [][/\ \A e \in tr_log' :
            e.ev = "eval"
            => \A k \in 1..(e.i - 1) :
                 \E c \in tr_log' :
                    c.ev = "check" /\ c.i = k /\ e.set \subseteq c.set
       /\ \A c \in tr_log', d \in tr_log' :
            (c.ev = "check" /\ d.ev = "check" /\ c.i <= d.i)
            => d.set \subseteq c.set
       /\ tr_check' \subseteq tr_check
       /\ \A r \in Ranks : tr_idx'[r] \subseteq tr_idx[r]]_vars

\* A sample failed the first check, the other one was evaluated in the
\* second iteration by every rank.
C18_Witness ==
    \E s \in Samples :
        /\ \E c \in tr_log : c.ev = "check" /\ c.i = 1 /\ c.set = {s}
        /\ \A r \in Ranks : Ev("eval", r, 2, {s}) \in tr_log
        /\ Did("check", Controller, 2)

\* C19: when no sample is plausible after the check of an iteration before
\* the last one, no rank evaluates a later iteration, and a rank that
\* returns has run the post code, the controller also the exit code.
C19_EmptySetEndsTraversal ==
    \A c \in tr_log :
        (c.ev = "check" /\ c.set = {} /\ c.i < tr_in.emul_i)
        => /\ \A e \in tr_log : e.ev \in {"eval", "gather", "check"}
                                  => e.i <= c.i
           /\ \A r \in Ranks : tr_i[r] <= c.i
           /\ \A r \in Ranks :
                tr_pc[r] = "done"
                => /\ Did("post", r, c.i)
                   /\ r = Controller => Did("exit", r, c.i)
           /\ \A r \in Ranks : tr_pc[r] # "raised"

\* The first check of two left no sample and every rank has returned.
C19_Witness ==
    /\ tr_in.emul_i > 1
    /\ Ev("check", Controller, 1, {}) \in tr_log
    /\ \A r \in Ranks : tr_pc[r] = "done" /\ Did("post", r, 1)
    /\ Did("exit", Controller, 1)

\* C20: a rank that has finished the bcast of an iteration holds the index
\* set the controller got from the check of that iteration; with the
\* 'analyze' code every rank returns the same set of samples.
C20_RanksAgreeOnPlausibleSet ==
    /\ \A e \in tr_log :
          e.ev = "bcast"
          => /\ Ev("check", Controller, e.i, e.set) \in tr_log
             /\ Ev("bcast", Controller, e.i, e.set) \in tr_log
             /\ tr_i[e.r] = e.i /\ tr_pc[e.r] # "eval" => tr_idx[e.r] = e.set
    /\ tr_in.exec_code = "analyze"
         => \A e \in tr_log, f \in tr_log :
              (e.ev = "return" /\ f.ev = "return") => e.set = f.set

\* Every rank has returned the one sample of two that passed both checks.
C20_Witness ==
    /\ tr_in.exec_code = "analyze"
    /\ tr_in.emul_i = 2
    /\ \E s \in Samples :
         /\ Ev("check", Controller, 1, Samples) \in tr_log
         /\ \A r \in Ranks : Ev("return", r, 2, {s}) \in tr_log

\* The snippets of rank r that are executed once per traversal.
IsFixedHook(h) == h # "anal"

HooksRun(r) == SelectSeq(tr_hooks[r], IsFixedHook)

Ran(r, h) == \E k \in 1..Len(tr_hooks[r]) : tr_hooks[r][k] = h

\* C21: in a traversal the pre code is executed once, before a sample is
\* evaluated, the post code once, after the loop over the iterations has
\* ended, and the exit code once, after the post code and on the controller
\* only; a worker never executes the exit code.
C21_HooksRunOnceAtFixedPoints ==
    \A r \in Ranks :
        /\ IsPrefix(HooksRun(r),
                    IF r = Controller THEN <<"pre", "post", "exit">>
                    ELSE <<"pre", "post">>)
        /\ (\E e \in tr_log : e.ev = "eval" /\ e.r = r) => Ran(r, "pre")
        /\ tr_pc[r] \in {"eval", "gather", "check", "barrier", "bcast"}
             => HooksRun(r) = <<"pre">>
        /\ tr_pc[r] = "done"
             => HooksRun(r) = IF r = Controller THEN <<"pre", "post", "exit">>
                              ELSE <<"pre", "post">>

\* Every rank has returned from a traversal of two iterations.
C21_Witness ==
    /\ \A r \in Ranks : tr_pc[r] = "done" /\ Did("eval", r, 2)
    /\ HooksRun(Controller) = <<"pre", "post", "exit">>
    /\ \A w \in Workers : HooksRun(w) = <<"pre", "post">>

\* C22 as stated: no worker executes the post code.
C22_NoWorkerRunsPost == \A w \in Workers : ~Ran(w, "post")

\* C22, amended: only the controller executes the exit code and the code
\* run after each check; the post code is executed by every rank, the
\* workers included, before it returns.
C22_PostOnEveryRankExitOnControllerOnly ==
    /\ \A w \in Workers : ~Ran(w, "exit") /\ ~Ran(w, "anal")
    /\ \A r \in Ranks :
         (\E e \in tr_log : e.ev \in {"return", "return_none"} /\ e.r = r)
         => Ran(r, "post") /\ Did("post", r, tr_i[r])
    /\ \A e \in tr_log : e.ev = "exit" => e.r = Controller

\* A worker has executed the post code and returned the plausible samples.
C22_Witness ==
    \E w \in Workers :
        /\ Ran(w, "post")
        /\ tr_pc[w] = "done"
        /\ tr_in.exec_code = "analyze"
        /\ \E e \in tr_log : e.ev = "return" /\ e.r = w
        /\ Ran(Controller, "exit")

\* -------------------------------------------------------------------------
\* Pipeline._get_iteration_data and Pipeline._evaluate_model
\* -------------------------------------------------------------------------
\* np.cumsum up to position r: the sum of nd[0], ..., nd[r-1].
RECURSIVE SumBelow(_, _)
SumBelow(nd, r) == IF r = 0 THEN 0 ELSE nd[r - 1] + SumBelow(nd, r - 1)

\* n_data of _get_data_idx_flat: the number of data points of every rank.
NData ==
    {nd \in [Ranks -> 0..MaxData] : SumBelow(nd, NumWorkers + 1) <= MaxData}

\* The sample sets given: none, or the samples in any order.
SamSets ==
    {<<>>} \cup {s \in [1..MaxSam -> 1..MaxSam] :
                    \A j, k \in 1..MaxSam : s[j] = s[k] => j = k}

\* The displacements without the leading 0: np.cumsum(n_data).
DispShifted(nd, r) == SumBelow(nd, r + 1)

\* disps = np.cumsum([0, *n_data[:-1]])
Disp(nd, r) == SumBelow(nd, r)

\* idx = [np.arange(disp, disp+i) for i, disp in zip(n_data, disps)]
Idx(nd, r) == {k \in 0..(MaxData + MaxData) :
                  Disp(nd, r) <= k /\ k < Disp(nd, r) + nd[r]}

\* Every rank calls the model, whatever the flags are.
CallsModelAll(r) == TRUE

\* if self._is_controller or self._modellink._MPI_call
CallsModel(r) == r = Controller \/ gd_in.MPI_call

\* The calls of the model rank r makes in _evaluate_model: the sorted
\* sam_set at once, or its samples one by one.
ModelCalls(r) ==
    LET sorted == Sort(gd_in.sam_set)
    IN IF ~CallsModel(r) THEN <<>>
       ELSE IF gd_in.multi_call THEN <<sorted>>
       ELSE [k \in 1..Len(sorted) |-> <<sorted[k]>>]

\* How far rank r is in _get_iteration_data.
GdPos(r) ==
    CASE gd_pc[r] = "idx" -> 1
      [] gd_pc[r] = "model" -> 2
      [] gd_pc[r] = "bar_model" -> 3
      [] gd_pc[r] \in {"scatter", "recv"} -> 4
      [] gd_pc[r] = "save" -> IF r = Controller THEN 7 ELSE 5
      [] gd_pc[r] = "bar_saved" -> 6
      [] gd_pc[r] = "bar_final" -> 8
      [] OTHER -> 9

BarrierNo(pc) ==
    CASE pc = "bar_model" -> 3 [] pc = "bar_saved" -> 6 [] OTHER -> 8

\* A Barrier that lets a rank through at once.
GdArrivedAny(q, b) == TRUE

\* Rank q has reached the Barrier b.
GdArrived(q, b) == GdPos(q) >= b

\* After the broadcast of data_idx_flat and after the Barrier of
\* _evaluate_model: the controller distributes, a worker receives.
Distribute(r) == IF r = Controller THEN "scatter" ELSE "recv"

\* data_idx_flat = self._comm.bcast(data_idx_flat, 0); then the model is
\* evaluated if there are samples.
GdIdx(r) ==
    /\ gd_pc[r] = "idx"
    /\ IF r = Controller
       THEN gd_chan' = [w \in Workers |-> Append(gd_chan[w],
                                           [kind |-> "data_idx", rows |-> {}])]
       ELSE /\ gd_chan[r] # <<>>
            /\ Head(gd_chan[r]).kind = "data_idx"
            /\ gd_chan' = [gd_chan EXCEPT ![r] = Tail(@)]
    /\ gd_pc' = [gd_pc EXCEPT ![r] = IF gd_in.sam_set # <<>> THEN "model"
                                     ELSE Distribute(r)]
    /\ UNCHANGED <<gd_in, gd_calls, gd_shard, gd_saved>>
    /\ UNCHANGED <<wmvars, cutvars, chkvars, itvars, trvars, opvars, utvars>>

\* _evaluate_model up to its Barrier.
GdModel(r) ==
    /\ gd_pc[r] = "model"
    /\ gd_calls' = [gd_calls EXCEPT ![r] = ModelCalls(r)]
    /\ gd_pc' = [gd_pc EXCEPT ![r] = "bar_model"]
    /\ UNCHANGED <<gd_in, gd_chan, gd_shard, gd_saved>>
    /\ UNCHANGED <<wmvars, cutvars, chkvars, itvars, trvars, opvars, utvars>>

\* self._comm.Barrier(): in _evaluate_model, after the workers have saved,
\* and at the end.
GdBarrier(r) ==
    /\ gd_pc[r] \in {"bar_model", "bar_saved", "bar_final"}
    /\ \A q \in Ranks : GdArrived(q, BarrierNo(gd_pc[r]))
    /\ gd_pc' = [gd_pc EXCEPT ![r] =
                    CASE gd_pc[r] = "bar_model" -> Distribute(r)
                      [] gd_pc[r] = "bar_saved" ->
                           IF r = Controller THEN "save" ELSE "bar_final"
                      [] OTHER -> "done"]
    /\ UNCHANGED <<gd_in, gd_calls, gd_chan, gd_shard, gd_saved>>
    /\ UNCHANGED <<wmvars, cutvars, chkvars, itvars, trvars, opvars, utvars>>

\* The controller broadcasts sam_set and scatters mod_set_list.
GdScatter ==
    /\ gd_pc[Controller] = "scatter"
    /\ gd_chan' = [w \in Workers |->
                     Append(gd_chan[w], [kind |-> "mod_set",
                                         rows |-> Idx(gd_in.n_data, w)])]
    /\ gd_shard' = [gd_shard EXCEPT ![Controller] =
                      Idx(gd_in.n_data, Controller)]
    /\ gd_pc' = [gd_pc EXCEPT ![Controller] = "bar_saved"]
    /\ UNCHANGED <<gd_in, gd_calls, gd_saved>>
    /\ UNCHANGED <<wmvars, cutvars, chkvars, itvars, trvars, opvars, utvars>>

\* A worker obtains sam_set and its part of mod_set.
GdRecv(w) ==
    /\ w \in Workers
    /\ gd_pc[w] = "recv"
    /\ gd_chan[w] # <<>>
    /\ Head(gd_chan[w]).kind = "mod_set"
    /\ gd_shard' = [gd_shard EXCEPT ![w] = Head(gd_chan[w]).rows]
    /\ gd_chan' = [gd_chan EXCEPT ![w] = Tail(@)]
    /\ gd_pc' = [gd_pc EXCEPT ![w] = "save"]
    /\ UNCHANGED <<gd_in, gd_calls, gd_saved>>
    /\ UNCHANGED <<wmvars, cutvars, chkvars, itvars, trvars, opvars, utvars>>

\* self._emulator._save_data(emul_i, ..., {'mod_real_set': ...})
GdSave(r) ==
    /\ gd_pc[r] = "save"
    /\ gd_saved' = gd_saved \cup {r}
    /\ gd_pc' = [gd_pc EXCEPT ![r] = IF r = Controller THEN "bar_final"
                                     ELSE "bar_saved"]
    /\ UNCHANGED <<gd_in, gd_calls, gd_chan, gd_shard>>
    /\ UNCHANGED <<wmvars, cutvars, chkvars, itvars, trvars, opvars, utvars>>

\* Every rank calls _get_iteration_data.
InitGetData ==
    /\ \E mpi \in BOOLEAN, multi \in BOOLEAN, sam \in SamSets, nd \in NData :
         gd_in = [MPI_call |-> mpi, multi_call |-> multi, sam_set |-> sam,
                  n_data |-> nd]
    /\ gd_pc = [r \in Ranks |-> "idx"]
    /\ gd_calls = [r \in Ranks |-> <<>>]
    /\ gd_chan = [w \in Workers |-> <<>>]
    /\ gd_shard = [r \in Ranks |-> {-1}]
    /\ gd_saved = {}

InitData ==
    InitGetData /\ IdleWM /\ IdleCut /\ IdleCheck /\ IdleIter /\ IdleTrav
    /\ IdleOps /\ IdleUtil

NextData ==
    \/ \E r \in Ranks : GdIdx(r)
    \/ \E r \in Ranks : GdModel(r)
    \/ \E r \in Ranks : GdBarrier(r)
    \/ GdScatter
    \/ \E w \in Workers : GdRecv(w)
    \/ \E r \in Ranks : GdSave(r)

SpecData == InitData /\ [][NextData]_vars

\* -------------------------------------------------------------------------
\* Properties of _get_iteration_data and _evaluate_model
\* -------------------------------------------------------------------------
\* C23: the controller leaves the Barrier that follows the scatter only
\* after every worker has saved its model outputs, no rank leaves the last
\* Barrier before the controller has saved its own, and so every rank has
\* saved when _get_iteration_data returns on a rank.
C23_AllSavedBeforeReturn ==
    /\ gd_pc[Controller] \in {"save", "bar_final", "done"}
         => Workers \subseteq gd_saved
    /\ \A r \in Ranks : gd_pc[r] = "done" => gd_saved = Ranks
    /\ \A r \in gd_saved : gd_shard[r] # {-1}

\* A worker has returned; the other ranks are still in the last Barrier.
C23_Witness ==
    /\ \E w \in Workers : gd_pc[w] = "done"
    /\ gd_pc[Controller] = "bar_final"
    /\ gd_saved = Ranks

\* The samples of the calls a rank made, in the order of the calls.
RECURSIVE Flatten(_)
Flatten(calls) ==
    IF calls = <<>> THEN <<>> ELSE Head(calls) \o Flatten(Tail(calls))

\* C24: a worker calls the model only when MPI_call is set, the controller
\* always; a rank that calls the model calls it once with all samples when
\* multi_call is set and else once per sample, in ascending order of the
\* samples.
C24_ModelCallsFollowFlags ==
    \A r \in Ranks :
        /\ (r \in Workers /\ ~gd_in.MPI_call) => gd_calls[r] = <<>>
        /\ (gd_pc[r] \notin {"idx", "model"} /\ gd_in.sam_set # <<>>
            /\ (r = Controller \/ gd_in.MPI_call))
           => LET all == Flatten(gd_calls[r])
              IN /\ Len(all) = Len(gd_in.sam_set)
                 /\ {all[k] : k \in 1..Len(all)}
                      = {gd_in.sam_set[k] : k \in 1..Len(gd_in.sam_set)}
                 /\ \A j, k \in 1..Len(all) : j < k => all[j] < all[k]
                 /\ IF gd_in.multi_call THEN Len(gd_calls[r]) = 1
                    ELSE \A k \in 1..Len(gd_calls[r]) :
                            Len(gd_calls[r][k]) = 1

\* Without MPI_call the controller has called the model for every sample of
\* a set given in descending order, the workers have not called it.
C24_Witness ==
    /\ ~gd_in.MPI_call
    /\ ~gd_in.multi_call
    /\ Len(gd_in.sam_set) = MaxSam
    /\ gd_in.sam_set[1] = MaxSam
    /\ Len(gd_calls[Controller]) = MaxSam
    /\ \A r \in Ranks : gd_pc[r] = "done"
    /\ \A w \in Workers : gd_calls[w] = <<>>

\* C25: the rows scattered are, for rank r, those from the sum of n_data
\* of the ranks before r up to, not including, the sum of n_data up to r:
\* the ranges are contiguous and pairwise disjoint and cover the rows
\* 0 .. sum(n_data)-1, so every data point goes to exactly one rank.
C25_ScatteredRangesPartitionRows ==
    LET nd == gd_in.n_data
        got == {r \in Ranks : gd_shard[r] # {-1}}
    IN /\ \A r \in got :
            gd_shard[r] = SumBelow(nd, r) .. (SumBelow(nd, r + 1) - 1)
       /\ \A r \in got, q \in got : r # q => gd_shard[r] \cap gd_shard[q] = {}
       /\ got = Ranks
            => \A k \in 0..(SumBelow(nd, NumWorkers + 1) - 1) :
                 Cardinality({r \in Ranks : k \in gd_shard[r]}) = 1
       /\ got = Ranks
            => UNION {gd_shard[r] : r \in Ranks}
                 = 0..(SumBelow(nd, NumWorkers + 1) - 1)

\* Every rank has received its rows; the ranks have different numbers of
\* data points, one of them none.
C25_Witness ==
    /\ \A r \in Ranks : gd_shard[r] # {-1}
    /\ SumBelow(gd_in.n_data, NumWorkers + 1) = MaxData
    /\ gd_in.n_data[Controller] = 1
    /\ \E w \in Workers : gd_in.n_data[w] = 0
    /\ \E w \in Workers : gd_shard[w] = 1..(MaxData - 1)

\* -------------------------------------------------------------------------
\* analyze, construct, evaluate and the impl_cut setter on all ranks
\* -------------------------------------------------------------------------
\* The analysis data of a worker: _load_data is not called on it.
Unset == [impl_cut |-> <<>>, cut_idx |-> -1, n_eval_sam |-> -1,
          n_impl_sam |-> -1, impl_sam |-> {}]

\* The states of the emulator file and of the controller's data a method
\* is called in: no iteration; one iteration, not analyzed; analyzed with n
\* plausible samples; analyzed, and the construction of the second
\* iteration interrupted before or after the model realizations.
Built(n_eval, n_impl, next) ==
    [emul_i |-> 1, ccheck |-> <<{}>> \o next, n_eval_sam |-> <<n_eval>>,
     n_impl_sam |-> <<n_impl>>, impl_cut |-> <<ParImplCut>>,
     cut_idx |-> <<0>>]

PipelineStates ==
    {[emul_i |-> 0, ccheck |-> <<>>, n_eval_sam |-> <<>>,
      n_impl_sam |-> <<>>, impl_cut |-> <<>>, cut_idx |-> <<>>]}
    \cup {Built(0, 0, <<>>)}
    \cup {Built(MaxSam, n, next) :
            n \in ImplSamCounts,
            next \in {<<>>, <<AllSteps>>, <<{"cov_mat"}>>}}

\* A test of the rank that lets every rank write.
MayWriteAny(r) == TRUE

\* if self._is_controller: the controller alone writes the analysis data.
MayWrite(r) == r = Controller

\* The number of plausible samples kept as it is found.
NImplSamKept(n) == n

\* n_impl_sam = len(impl_sam); if(n_impl_sam == 1): n_impl_sam = 0
NImplSam(n) == IF n = 1 THEN 0 ELSE n

\* The test of the plausible samples when too few of them are an error.
TooFewRaises(n) ==
    IF n = 0 \/ n < n_cross_val THEN "RequestError" ELSE "none"

\* analyze, e13.raise_warning: no plausible samples, or fewer than the
\* regression needs, are warned about.
TooFewWarns(n) ==
    IF n = 0 \/ n < n_cross_val THEN "RequestWarning" ELSE "none"

\* The ranks are idle: the method called last has ended on every rank.
AllIdle == \A r \in Ranks : op_pc[r] = "idle"

\* Rank r ends the method: it returns (res "ok") or raises.
OpEnd(r, res) ==
    /\ op_pc' = [op_pc EXCEPT ![r] = IF res = "ok" THEN "idle" ELSE "raised"]
    /\ op_res' = [op_res EXCEPT ![r] = res]

OpSend(msg) == op_chan' = [w \in Workers |-> Append(op_chan[w], msg)]

\* What no method called on all ranks changes.
OpRest ==
    /\ UNCHANGED <<is_controller, n_data_tot, cut_arg, cut_res>>
    /\ UNCHANGED <<it_call, it_pc, it_found, it_trace, it_res>>
    /\ UNCHANGED <<wmvars, chkvars, trvars, gdvars, utvars>>

\* The calls that can be made: analyze(impl_cut=cut), the setter of
\* impl_cut with cut, evaluate, or construct(i, analyze=an, force=fc) with
\* or without a valid ext_real_set for the first iteration.  pass are the
\* evaluation samples that pass the checks of all iterations.
NoArgs == [op |-> "none", cut |-> <<>>, pass |-> {}, i |-> 0,
           analyze |-> FALSE, force |-> FALSE, ext_ok |-> TRUE]

OpArgs ==
    {[NoArgs EXCEPT !.op = "analyze", !.cut = cut, !.pass = pass] :
        cut \in CutArgs, pass \in SUBSET Samples}
    \cup {[NoArgs EXCEPT !.op = "impl_cut", !.cut = cut] :
            cut \in CutArgs \ {<<>>}}
    \cup {[NoArgs EXCEPT !.op = "evaluate"]}
    \cup {a \in [op : {"construct"}, cut : {<<>>}, pass : SUBSET Samples,
                 i : 1..MaxEmulI, analyze : BOOLEAN, force : BOOLEAN,
                 ext_ok : BOOLEAN] :
            /\ a.i # 1 => a.ext_ok
            /\ ~a.analyze => a.pass = {}}

\* Every rank calls the same method with the same arguments.  The previous
\* iteration has been analyzed when a later one is constructed.
OpCall(a) ==
    /\ AllIdle
    /\ op_n < MaxOps
    /\ a.op \in {"analyze", "evaluate"} => emul_i >= 1
    /\ a.op = "construct"
         => /\ a.i <= emul_i + 1
            /\ a.i > 1 => n_eval_sam[a.i - 1] # 0
    /\ op_n' = op_n + 1
    /\ op_in' = a
    /\ op_pc' = [r \in Ranks |->
                   CASE a.op = "analyze" ->
                          IF r = Controller THEN "a_check" ELSE "a_bcast"
                     [] a.op = "impl_cut" -> "setter"
                     [] a.op = "evaluate" -> "e_barrier"
                     [] OTHER -> "c_decide"]
    /\ op_res' = [r \in Ranks |-> "none"]
    /\ op_log' = {}
    /\ UNCHANGED <<op_meta, op_chan, impl_sam>>
    /\ UNCHANGED <<ccheck, n_impl_sam, emul_i, n_eval_sam, impl_cut, cut_idx>>
    /\ OpRest

\* pipe.impl_cut = cut on rank r: the setter stores on the controller and
\* does nothing on a worker.
OpSetter(r) ==
    /\ op_pc[r] = "setter"
    /\ IF MayWrite(r)
       THEN IF r = Controller
            THEN LET out == SetterOutcome(op_in.cut, FALSE)
                 IN /\ OpEnd(r, IF out.res = "stored" THEN "ok" ELSE out.res)
                    /\ IF out.res = "stored"
                       THEN /\ impl_cut' = StoreAt(impl_cut, emul_i, out.cut)
                            /\ cut_idx' = StoreAt(cut_idx, emul_i, out.idx)
                       ELSE UNCHANGED <<impl_cut, cut_idx>>
                    /\ UNCHANGED op_meta
            ELSE /\ OpEnd(r, "ok")
                 /\ op_meta' = [op_meta EXCEPT ![r].impl_cut = op_in.cut]
                 /\ UNCHANGED <<impl_cut, cut_idx>>
       ELSE /\ OpEnd(r, "ok")
            /\ UNCHANGED <<op_meta, impl_cut, cut_idx>>
    /\ UNCHANGED <<op_in, op_chan, op_log, op_n, impl_sam>>
    /\ UNCHANGED <<ccheck, n_impl_sam, emul_i, n_eval_sam>>
    /\ OpRest

\* analyze on the controller: the analysis is refused when the construction
\* of the next iteration has started.  The workers do not make this test.
AnalyzeCheck ==
    /\ op_pc[Controller] = "a_check"
    /\ IF NextIterationStarted
       THEN OpEnd(Controller, "RequestError")
       ELSE /\ op_pc' = [op_pc EXCEPT ![Controller] = "a_cut"]
            /\ UNCHANGED op_res
    /\ UNCHANGED <<op_in, op_meta, op_chan, op_log, op_n, impl_sam>>
    /\ UNCHANGED <<ccheck, n_impl_sam, emul_i, n_eval_sam, impl_cut, cut_idx>>
    /\ OpRest

\* analyze on the controller: if impl_cut is not None:
\* self._set_impl_par(impl_cut); the setter raises on a list it refuses.
AnalyzeCut ==
    /\ op_pc[Controller] = "a_cut"
    /\ LET out == IF op_in.cut # <<>> THEN SetterOutcome(op_in.cut, TRUE)
                  ELSE [res |-> "kept"]
       IN IF out.res \notin {"kept", "stored"}
          THEN /\ OpEnd(Controller, out.res)
               /\ UNCHANGED <<impl_cut, cut_idx>>
          ELSE /\ op_pc' = [op_pc EXCEPT ![Controller] = "a_bcast"]
               /\ UNCHANGED op_res
               /\ IF out.res = "stored"
                  THEN /\ impl_cut' = StoreAt(impl_cut, emul_i, out.cut)
                       /\ cut_idx' = StoreAt(cut_idx, emul_i, out.idx)
                  ELSE UNCHANGED <<impl_cut, cut_idx>>
    /\ UNCHANGED <<op_in, op_meta, op_chan, op_log, op_n, impl_sam>>
    /\ UNCHANGED <<ccheck, n_impl_sam, emul_i, n_eval_sam>>
    /\ OpRest

\* eval_sam_set = self._comm.bcast(eval_sam_set, 0): the controller sends,
\* a worker waits for the set.  The rank then enters _evaluate_sam_set.
AnalyzeBcast(r) ==
    /\ op_pc[r] = "a_bcast"
    /\ IF r = Controller
       THEN OpSend([kind |-> "eval_sam_set"])
       ELSE /\ op_chan[r] # <<>>
            /\ Head(op_chan[r]).kind = "eval_sam_set"
            /\ op_chan' = [op_chan EXCEPT ![r] = Tail(op_chan[r])]
    /\ op_pc' = [op_pc EXCEPT ![r] = "trav"]
    /\ op_log' = op_log \cup {[ev |-> "trav", r |-> r]}
    /\ UNCHANGED <<op_in, op_meta, op_res, op_n, impl_sam>>
    /\ UNCHANGED <<ccheck, n_impl_sam, emul_i, n_eval_sam, impl_cut, cut_idx>>
    /\ OpRest

\* evaluate: self._comm.Barrier(), then _evaluate_sam_set.
EvaluateEnter(r) ==
    /\ op_pc[r] = "e_barrier"
    /\ op_pc' = [op_pc EXCEPT ![r] = "trav"]
    /\ op_log' = op_log \cup {[ev |-> "trav", r |-> r]}
    /\ UNCHANGED <<op_in, op_meta, op_chan, op_res, op_n, impl_sam>>
    /\ UNCHANGED <<ccheck, n_impl_sam, emul_i, n_eval_sam, impl_cut, cut_idx>>
    /\ OpRest

\* _evaluate_sam_set gathers and synchronizes: no rank returns from it
\* before every rank has entered it.  evaluate then returns; analyze goes
\* on to save.
OpTraverse(r) ==
    /\ op_pc[r] = "trav"
    /\ \A q \in Ranks : [ev |-> "trav", r |-> q] \in op_log
    /\ IF op_in.op = "evaluate"
       THEN OpEnd(r, "ok")
       ELSE /\ op_pc' = [op_pc EXCEPT ![r] = "a_save"]
            /\ UNCHANGED op_res
    /\ UNCHANGED <<op_in, op_meta, op_chan, op_log, op_n, impl_sam>>
    /\ UNCHANGED <<ccheck, n_impl_sam, emul_i, n_eval_sam, impl_cut, cut_idx>>
    /\ OpRest

\* analyze after the traversal, if self._is_controller: the number of
\* plausible samples is found, a single plausible sample is removed, too
\* few samples are warned about, and _save_data stores impl_sam,
\* n_impl_sam and n_eval_sam.  Then details() and the return.
AnalyzeSave(r) ==
    /\ op_pc[r] = "a_save"
    /\ LET found == Cardinality(op_in.pass)
           n == NImplSam(found)
           sam == IF n = 0 THEN {} ELSE op_in.pass
           warn == IF MayWrite(r) THEN TooFewWarns(n) ELSE "none"
       IN IF warn \notin {"none", "RequestWarning"}
          THEN /\ OpEnd(r, warn)
               /\ UNCHANGED <<op_meta, impl_sam, n_impl_sam, n_eval_sam>>
          ELSE /\ OpEnd(r, "ok")
               /\ IF ~MayWrite(r)
                  THEN UNCHANGED <<op_meta, impl_sam, n_impl_sam, n_eval_sam>>
                  ELSE IF r = Controller
                  THEN /\ impl_sam' = sam
                       /\ n_impl_sam' = StoreAt(n_impl_sam, emul_i, n)
                       /\ n_eval_sam' = StoreAt(n_eval_sam, emul_i, MaxSam)
                       /\ UNCHANGED op_meta
                  ELSE /\ op_meta' = [op_meta EXCEPT ![r].impl_sam = sam,
                                                     ![r].n_impl_sam = n,
                                                     ![r].n_eval_sam = MaxSam]
                       /\ UNCHANGED <<impl_sam, n_impl_sam, n_eval_sam>>
    /\ UNCHANGED <<op_in, op_chan, op_log, op_n>>
    /\ UNCHANGED <<ccheck, emul_i, impl_cut, cut_idx>>
    /\ OpRest

\* The rank goes on with analyze, called at the end of construct.
OpAnalyze(r) ==
    [op_pc EXCEPT ![r] = IF r = Controller THEN "a_check" ELSE "a_bcast"]

\* construct: the controller finds c_from_start and broadcasts it; every
\* rank takes the branch that was broadcast.
OpConstructDecide(r) ==
    /\ op_pc[r] = "c_decide"
    /\ \/ /\ r = Controller
          /\ OpSend([kind |-> "c_from_start",
                     val |-> CFromStart(op_in.i, op_in.force)])
       \/ /\ r # Controller
          /\ op_chan[r] # <<>>
          /\ Head(op_chan[r]).kind = "c_from_start"
          /\ op_chan' = [op_chan EXCEPT ![r] = Tail(op_chan[r])]
    /\ LET c_from_start == IF r = Controller
                           THEN CFromStart(op_in.i, op_in.force)
                           ELSE Head(op_chan[r]).val
       IN /\ op_log' = op_log \cup {[ev |-> "branch", r |-> r,
                                     val |-> c_from_start]}
          /\ op_pc' = [op_pc EXCEPT ![r] =
                         CASE c_from_start = "skip" -> "c_flag"
                           [] c_from_start = "resume" -> "c_build"
                           [] OTHER -> IF r = Controller THEN "c_body"
                                       ELSE "c_listen"]
    /\ UNCHANGED <<op_in, op_meta, op_res, op_n, impl_sam>>
    /\ UNCHANGED <<ccheck, n_impl_sam, emul_i, n_eval_sam, impl_cut, cut_idx>>
    /\ OpRest

\* construct of a finished iteration: the controller broadcasts whether it
\* has been analyzed; every rank then analyzes or shows the details.
OpConstructFlag(r) ==
    /\ op_pc[r] = "c_flag"
    /\ \/ /\ r = Controller
          /\ OpSend([kind |-> "n_eval_sam", val |-> n_eval_sam[op_in.i]])
       \/ /\ r # Controller
          /\ op_chan[r] # <<>>
          /\ Head(op_chan[r]).kind = "n_eval_sam"
          /\ op_chan' = [op_chan EXCEPT ![r] = Tail(op_chan[r])]
    /\ LET n_eval == IF r = Controller THEN n_eval_sam[op_in.i]
                     ELSE Head(op_chan[r]).val
       IN /\ op_log' = op_log \cup {[ev |-> "analyzed", r |-> r,
                                     val |-> IF n_eval # 0 THEN "yes"
                                             ELSE "no"]}
          /\ IF op_in.analyze /\ n_eval = 0
             THEN op_pc' = OpAnalyze(r) /\ UNCHANGED op_res
             ELSE OpEnd(r, "ok")
    /\ UNCHANGED <<op_in, op_meta, op_n, impl_sam>>
    /\ UNCHANGED <<ccheck, n_impl_sam, emul_i, n_eval_sam, impl_cut, cut_idx>>
    /\ OpRest

\* construct from the start, the controller inside worker mode: a refused
\* ext_real_set (first iteration) or too few plausible samples (later
\* iterations) raise here; otherwise the iteration is prepared, the data
\* of the iterations before it are reloaded, the model realizations are
\* obtained and worker mode is left, which releases the workers.
OpConstructBody ==
    /\ op_pc[Controller] = "c_body"
    /\ LET i == op_in.i
           err == IF i = 1
                  THEN IF op_in.ext_ok THEN "none" ELSE "InputError"
                  ELSE IF TooFewImplSam(i) THEN "RequestError" ELSE "none"
       IN IF err # "none"
          THEN /\ OpEnd(Controller, err)
               /\ UNCHANGED <<op_chan, ccheck, emul_i, n_impl_sam, n_eval_sam,
                              impl_cut, cut_idx, impl_sam>>
          ELSE /\ op_pc' = [op_pc EXCEPT ![Controller] = "c_build"]
               /\ UNCHANGED op_res
               /\ OpSend([kind |-> "exit"])
               /\ ccheck' = SubSeq(ccheck, 1, i - 1)
                              \o <<AllSteps \ {"mod_real_set"}>>
               /\ emul_i' = i - 1
               /\ n_impl_sam' = SubSeq(n_impl_sam, 1, i - 1)
               /\ n_eval_sam' = SubSeq(n_eval_sam, 1, i - 1)
               /\ impl_cut' = SubSeq(impl_cut, 1, i - 1)
               /\ cut_idx' = SubSeq(cut_idx, 1, i - 1)
               /\ UNCHANGED impl_sam
    /\ UNCHANGED <<op_in, op_meta, op_log, op_n>>
    /\ OpRest

\* construct from the start, a worker inside worker mode: it listens until
\* the controller leaves worker mode.
OpConstructListen(w) ==
    /\ op_pc[w] = "c_listen"
    /\ op_chan[w] # <<>>
    /\ Head(op_chan[w]).kind = "exit"
    /\ op_chan' = [op_chan EXCEPT ![w] = Tail(op_chan[w])]
    /\ op_pc' = [op_pc EXCEPT ![w] = "c_build"]
    /\ UNCHANGED <<op_in, op_meta, op_res, op_log, op_n, impl_sam>>
    /\ UNCHANGED <<ccheck, n_impl_sam, emul_i, n_eval_sam, impl_cut, cut_idx>>
    /\ OpRest

\* self._emulator._construct_iteration(emul_i) on every rank; the
\* controller's copy of the checkpoint shows the iteration finished.
OpConstructBuild(r) ==
    /\ op_pc[r] = "c_build"
    /\ op_pc' = [op_pc EXCEPT ![r] = "c_save"]
    /\ IF r = Controller
       THEN /\ ccheck' = [ccheck EXCEPT ![op_in.i] = {}]
            /\ emul_i' = op_in.i
       ELSE UNCHANGED <<ccheck, emul_i>>
    /\ UNCHANGED <<op_in, op_meta, op_chan, op_res, op_log, op_n, impl_sam>>
    /\ UNCHANGED <<n_impl_sam, n_eval_sam, impl_cut, cut_idx>>
    /\ OpRest

\* construct, if self._is_controller: the iteration is saved as not
\* analyzed and impl_cut is set from the parameters; then every rank
\* analyzes or shows the details.
OpConstructSave(r) ==
    /\ op_pc[r] = "c_save"
    /\ r = Controller => emul_i = op_in.i
    /\ LET out == SetterOutcome(ParImplCut, TRUE)
       IN IF ~MayWrite(r)
          THEN UNCHANGED <<op_meta, impl_sam, n_impl_sam, n_eval_sam,
                           impl_cut, cut_idx>>
          ELSE IF r = Controller
          THEN /\ out.res = "stored"
               /\ impl_sam' = {}
               /\ n_impl_sam' = StoreAt(n_impl_sam, emul_i, 0)
               /\ n_eval_sam' = StoreAt(n_eval_sam, emul_i, 0)
               /\ impl_cut' = StoreAt(impl_cut, emul_i, out.cut)
               /\ cut_idx' = StoreAt(cut_idx, emul_i, out.idx)
               /\ UNCHANGED op_meta
          ELSE /\ op_meta' = [op_meta EXCEPT ![r] =
                                [impl_cut |-> ParImplCut, cut_idx |-> 0,
                                 n_eval_sam |-> 0, n_impl_sam |-> 0,
                                 impl_sam |-> {}]]
               /\ UNCHANGED <<impl_sam, n_impl_sam, n_eval_sam, impl_cut,
                              cut_idx>>
    /\ IF op_in.analyze
       THEN op_pc' = OpAnalyze(r) /\ UNCHANGED op_res
       ELSE OpEnd(r, "ok")
    /\ UNCHANGED <<op_in, op_chan, op_log, op_n>>
    /\ UNCHANGED <<ccheck, emul_i>>
    /\ OpRest

\* A pipeline on every rank, on an emulator file in one of the states
\* above: the controller has loaded its data, the workers have not.
InitPipelines ==
    /\ \E st \in PipelineStates :
         /\ emul_i = st.emul_i
         /\ ccheck = st.ccheck
         /\ n_eval_sam = st.n_eval_sam
         /\ n_impl_sam = st.n_impl_sam
         /\ impl_cut = st.impl_cut
         /\ cut_idx = st.cut_idx
    /\ is_controller = TRUE
    /\ n_data_tot = 1
    /\ cut_arg = <<>>
    /\ cut_res = "none"
    /\ it_call = NoCall
    /\ it_pc = "idle"
    /\ it_found = NoFound
    /\ it_trace = {}
    /\ it_res = "none"
    /\ op_in = <<>>
    /\ op_pc = [r \in Ranks |-> "idle"]
    /\ op_meta = [w \in Workers |-> Unset]
    /\ op_chan = [w \in Workers |-> <<>>]
    /\ op_res = [r \in Ranks |-> "none"]
    /\ op_log = {}
    /\ op_n = 0
    /\ impl_sam = {}

InitOps ==
    InitPipelines /\ IdleWM /\ IdleCheck /\ IdleTrav /\ IdleData /\ IdleUtil

NextOps ==
    \/ \E a \in OpArgs : OpCall(a)
    \/ \E r \in Ranks : OpSetter(r)
    \/ AnalyzeCheck
    \/ AnalyzeCut
    \/ \E r \in Ranks : AnalyzeBcast(r)
    \/ \E r \in Ranks : EvaluateEnter(r)
    \/ \E r \in Ranks : OpTraverse(r)
    \/ \E r \in Ranks : AnalyzeSave(r)
    \/ \E r \in Ranks : OpConstructDecide(r)
    \/ \E r \in Ranks : OpConstructFlag(r)
    \/ OpConstructBody
    \/ \E w \in Workers : OpConstructListen(w)
    \/ \E r \in Ranks : OpConstructBuild(r)
    \/ \E r \in Ranks : OpConstructSave(r)

SpecOps == InitOps /\ [][NextOps]_vars

\* -------------------------------------------------------------------------
\* Properties of the methods called on all ranks
\* -------------------------------------------------------------------------
\* C26: the analysis data (impl_cut, cut_idx, n_eval_sam, n_impl_sam,
\* impl_sam) are written on the controller only: whatever construct,
\* analyze, evaluate and the impl_cut setter are called in whatever order,
\* no step changes the analysis data of a worker, and the setter on a
\* worker returns without an error.
C26_WorkersNeverWriteAnalysisData ==
    [][/\ \A w \in Workers : op_meta'[w] = op_meta[w]
       /\ \A w \in Workers :
            op_pc[w] = "setter" /\ op_pc'[w] # "setter"
              => op_res'[w] = "ok"]_vars

\* The controller has saved an analysis and every worker has then gone
\* through the setter, its data still unset.
C26_Witness ==
    /\ impl_sam # {}
    /\ op_in # <<>>
    /\ op_in.op = "impl_cut"
    /\ \A w \in Workers : op_res[w] = "ok" /\ op_meta[w] = Unset

\* The controller has raised and worker w waits for a message of the
\* controller that is not under way: in the broadcast of analyze or in
\* the listening loop of worker mode.
Blocked(w) ==
    /\ op_pc[Controller] = "raised"
    /\ op_pc[w] \in {"a_bcast", "c_listen"}
    /\ op_chan[w] = <<>>

\* C27: a usage error (a cutoff list analyze refuses, an ext_real_set
\* construct refuses) ends the method before any rank has entered one of
\* its collective calls: no rank is left blocked in a broadcast or in the
\* listening loop.
C27_UsageErrorBlocksNoRank ==
    op_res[Controller] \in {"ValueError", "InputError"}
      => \A w \in Workers : ~Blocked(w)

\* C28: what the controller decides reaches every rank: all ranks take
\* the branch of construct (skip, start, resume) and see the 'already
\* analyzed' flag the controller found, and when the controller refuses
\* an operation (too few plausible samples, re-analysis of an iteration
\* whose successor has been started) no worker goes on with it.
C28_ControllerDecisionsReachEveryRank ==
    /\ \A e1 \in op_log, e2 \in op_log :
         e1.ev = e2.ev /\ e1.ev \in {"branch", "analyzed"}
           => e1.val = e2.val
    /\ op_res[Controller] = "RequestError"
         => \A w \in Workers : ~Blocked(w)

\* A rank ends analyze: it leaves the step after the traversal.
EndsAnalyze(r) == op_pc[r] = "a_save" /\ op_pc'[r] # "a_save"

\* C29: too few surviving samples never abort analyze: when none, or fewer
\* than n_cross_val, of the evaluation samples are plausible, every rank
\* that has left the traversal returns normally, none has raised, and the
\* controller has stored impl_cut, cut_idx, n_eval_sam, n_impl_sam and
\* the (possibly empty) plausible set of the iteration.
C29_TooFewSamplesOnlyWarn ==
    [][\A r \in Ranks :
         EndsAnalyze(r) /\ Cardinality(op_in.pass) < n_cross_val
           => /\ op_pc'[r] = "idle"
              /\ op_res'[r] = "ok"
              /\ \A q \in Ranks : op_pc'[q] # "raised"
              /\ r = Controller
                   => /\ Len(impl_cut') >= emul_i
                      /\ Len(cut_idx') >= emul_i
                      /\ Len(n_impl_sam') >= emul_i
                      /\ Len(n_eval_sam') >= emul_i
                      /\ n_eval_sam'[emul_i] = MaxSam
                      /\ n_impl_sam'[emul_i] = Cardinality(impl_sam')
                      /\ impl_sam' \subseteq op_in.pass]_vars

\* Every rank has returned from an analysis that found no plausible
\* sample, and the controller has stored its results.
C29_Witness ==
    /\ op_in # <<>>
    /\ op_in.op = "analyze"
    /\ op_in.pass = {}
    /\ \A r \in Ranks : op_pc[r] = "idle" /\ op_res[r] = "ok"
    /\ n_eval_sam[emul_i] = MaxSam
    /\ n_impl_sam[emul_i] = 0
    /\ impl_sam = {}

ControllerPastBody(sid) ==
    /\ n_sess[Controller] >= sid
    /\ \A i \in WMFrames(Controller) :
         stack[Controller][i].sid = sid
           => stack[Controller][i].pc = "exit_barrier"

ParRng(p) == <<p, p + 2 * UnitScale>>

\* Unit coordinates on the grid, one step below 0 to one step above 1.
UnitVals == -1..(UnitScale + 1)

\* Parameter values, from below the lowest range to above the highest.
ParVals == -1..(NPar + 2 * UnitScale + 1)

\* modellink._to_par_space(par_set) for the unit coordinates u[p]/UnitScale.
ToParSpace(u) ==
    [p \in 1..NPar |->
       ParRng(p)[1] + (u[p] * (ParRng(p)[2] - ParRng(p)[1])) \div UnitScale]

\* A range test that lets every sample through.
InRangeAny(sam) == TRUE

\* ((par_rng[:, 0] <= sam)*(sam <= par_rng[:, 1])).all()
InRange(sam) ==
    \A p \in 1..NPar : ParRng(p)[1] <= sam[p] /\ sam[p] <= ParRng(p)[2]

\* sam of lnpost: par_set in parameter space.
LnSam ==
    IF ln_in.unit_space THEN ToParSpace(ln_in.par_set) ELSE ln_in.par_set

\* lnpost(par_set): the conversion and the test of the parameter space;
\* -infinity is returned for a sample outside of it.
LnRange ==
    /\ ln_pc = "range"
    /\ IF InRange(LnSam)
       THEN ln_pc' = "analyze" /\ UNCHANGED ln_ret
       ELSE ln_pc' = "done" /\ ln_ret' = "-inf"
    /\ UNCHANGED <<ln_in, ln_log, pjvars, mlvars>>
    /\ UNCHANGED <<wmvars, cutvars, chkvars, itvars, trvars, gdvars, opvars>>

\* impl_sam = pipe._analyze_sam_set(emul_i, sam, ...): the emulator is
\* evaluated; an empty impl_sam gives -infinity.
LnAnalyze ==
    /\ ln_pc = "analyze"
    /\ ln_log' = ln_log \cup {"emulator"}
    /\ IF ln_in.plausible
       THEN ln_pc' = "ext" /\ UNCHANGED ln_ret
       ELSE ln_pc' = "done" /\ ln_ret' = "-inf"
    /\ UNCHANGED <<ln_in, pjvars, mlvars>>
    /\ UNCHANGED <<wmvars, cutvars, chkvars, itvars, trvars, gdvars, opvars>>

\* return(ext_lnpost(par_set, *args, **kwargs))
LnExt ==
    /\ ln_pc = "ext"
    /\ ln_log' = ln_log \cup {"ext_lnpost"}
    /\ ln_ret' = "ext_lnpost"
    /\ ln_pc' = "done"
    /\ UNCHANGED <<ln_in, pjvars, mlvars>>
    /\ UNCHANGED <<wmvars, cutvars, chkvars, itvars, trvars, gdvars, opvars>>

\* lnpost is called with a sample given in unit space or in parameter
\* space, which the emulator finds plausible or not.
InitLnpostCall ==
    /\ \E us \in BOOLEAN, pl \in BOOLEAN :
         \E ps \in [1..NPar -> IF us THEN UnitVals ELSE ParVals] :
           ln_in = [unit_space |-> us, par_set |-> ps, plausible |-> pl]
    /\ ln_pc = "range"
    /\ ln_log = {}
    /\ ln_ret = "none"

InitLnpost ==
    InitLnpostCall /\ IdleWM /\ IdleCut /\ IdleCheck /\ IdleIter /\ IdleTrav
    /\ IdleData /\ IdleOps /\ IdleProj /\ IdleLink

NextLnpost ==
    \/ LnRange
    \/ LnAnalyze
    \/ LnExt

SpecLnpost == InitLnpost /\ [][NextLnpost]_vars

\* The sample handed to lnpost lies inside the parameter ranges: its unit
\* coordinates are in [0, 1], or its values are in the ranges.
InsideRanges ==
    IF ln_in.unit_space
    THEN \A p \in 1..NPar : 0 <= ln_in.par_set[p] /\ ln_in.par_set[p] <= UnitScale
    ELSE \A p \in 1..NPar :
           ParRng(p)[1] <= ln_in.par_set[p] /\ ln_in.par_set[p] <= ParRng(p)[2]

\* C32: lnpost calls ext_lnpost if and only if the sample lies inside the
\* parameter ranges and is plausible in the emulator; outside the ranges it
\* returns -infinity without evaluating the emulator, and for an
\* implausible sample it returns -infinity without calling ext_lnpost.
C32_ExtLnpostIffInRangeAndPlausible ==
    /\ ~InsideRanges => "emulator" \notin ln_log /\ "ext_lnpost" \notin ln_log
    /\ ~ln_in.plausible => "ext_lnpost" \notin ln_log
    /\ ln_pc = "done"
         => /\ "ext_lnpost" \in ln_log <=> InsideRanges /\ ln_in.plausible
            /\ ln_ret = IF InsideRanges /\ ln_in.plausible
                        THEN "ext_lnpost" ELSE "-inf"

\* C32, its case: a sample on the edge of the ranges in one parameter and
\* outside in the other has been refused without the emulator.
C32_Witness ==
    /\ ln_pc = "done"
    /\ ln_in.unit_space
    /\ ln_in.par_set[1] = 0
    /\ ln_in.par_set[NPar] = UnitScale + 1
    /\ ln_in.plausible
    /\ ln_log = {}
    /\ ln_ret = "-inf"

\* -------------------------------------------------------------------------
\* Projection._analyze_proj_hcube (projection.py)
\* -------------------------------------------------------------------------
\* self._n_hidden_samples
nhs == MaxHidden

\* self._emul_i of the projection.
proj_emul_i == MaxEmulI

\* The hypercubes: nhs samples for each of 1 to MaxGrid grid points, each
\* sample given by the first iteration whose implausibility check it fails.
ProjHcubes ==
    UNION {[1..(g * nhs) -> 0..proj_emul_i] : g \in 1..MaxGrid}

\* Sample i (counted from 0) passes the checks of iterations 1..emul_i: the
\* inner for-loop ends without a break.
PassesAll(i) == pj_in[i + 1] = 0

\* line_bin = ((i+1-nhs < impl_idx_line) & (impl_idx_line < i+1)).sum()
LineBin(line, i) ==
    Cardinality({k \in 1..Len(line) : i + 1 - nhs < line[k] /\ line[k] < i + 1})

\* One turn of the for-loop over proj_hcube: the checks of sample i, its
\* index saved if it passed them, and after every nhs samples the
\* line-of-sight of the grid point, after which the lists are cleared.
ProjSample ==
    /\ pj_i < Len(pj_in)
    /\ LET i == pj_i
           line == IF PassesAll(i) THEN Append(pj_idx_line, i)
                   ELSE pj_idx_line
       IN IF (i + 1) % nhs = 0
          THEN /\ pj_los' = Append(pj_los, LineBin(line, i))
               /\ pj_idx_line' = <<>>
          ELSE /\ pj_idx_line' = line
               /\ UNCHANGED pj_los
    /\ pj_i' = pj_i + 1
    /\ UNCHANGED <<pj_in, lnvars, mlvars>>
    /\ UNCHANGED <<wmvars, cutvars, chkvars, itvars, trvars, gdvars, opvars>>

InitProjHcube ==
    /\ pj_in \in ProjHcubes
    /\ pj_i = 0
    /\ pj_idx_line = <<>>
    /\ pj_los = <<>>

InitProj ==
    InitProjHcube /\ IdleWM /\ IdleCut /\ IdleCheck /\ IdleIter /\ IdleTrav
    /\ IdleData /\ IdleOps /\ IdleLnpost /\ IdleLink

NextProj == ProjSample

SpecProj == InitProj /\ [][NextProj]_vars

\* C33: for every grid point analyzed, the line-of-sight depth is the
\* fraction of the nhs samples of the grid point that passed the checks of
\* all iterations, the first and the last sample of the block included:
\* line_bin is the number of those samples.
C33_LineOfSightCountsEverySample ==
    \A g \in 1..Len(pj_los) :
        pj_los[g] = Cardinality({i \in ((g - 1) * nhs)..(g * nhs - 1) :
                                   PassesAll(i)})

\* -------------------------------------------------------------------------
\* ModelLink: the properties multi_call and MPI_call (modellink.py)
\* -------------------------------------------------------------------------
\* The property MPI_call, read: return(bool(self._multi_call))
GetMPICall == ml_multi_call

\* The property multi_call, read: return(bool(self._multi_call))
GetMultiCall == ml_multi_call

\* link.MPI_call = v
SetMPICall(v) ==
    /\ Len(ml_log) < MaxLinkOps
    /\ ml_MPI_call' = v
    /\ ml_set' = v
    /\ ml_log' = Append(ml_log, [op |-> "set_MPI_call", val |-> v])
    /\ UNCHANGED <<ml_multi_call, lnvars, pjvars>>
    /\ UNCHANGED <<wmvars, cutvars, chkvars, itvars, trvars, gdvars, opvars>>

\* link.multi_call = v
SetMultiCall(v) ==
    /\ Len(ml_log) < MaxLinkOps
    /\ ml_multi_call' = v
    /\ ml_log' = Append(ml_log, [op |-> "set_multi_call", val |-> v])
    /\ UNCHANGED <<ml_MPI_call, ml_set, lnvars, pjvars>>
    /\ UNCHANGED <<wmvars, cutvars, chkvars, itvars, trvars, gdvars, opvars>>

\* link.MPI_call or link.multi_call is read.
ReadFlag(prop) ==
    /\ Len(ml_log) < MaxLinkOps
    /\ ml_log' = Append(ml_log,
                        [op |-> prop,
                         val |-> IF prop = "get_MPI_call" THEN GetMPICall
                                 ELSE GetMultiCall])
    /\ UNCHANGED <<ml_multi_call, ml_MPI_call, ml_set, lnvars, pjvars>>
    /\ UNCHANGED <<wmvars, cutvars, chkvars, itvars, trvars, gdvars, opvars>>

\* ModelLink.__init__: both flags are False unless the subclass has set them
\* before.
InitModelLink ==
    /\ ml_multi_call \in BOOLEAN
    /\ ml_MPI_call \in BOOLEAN
    /\ ml_set = ml_MPI_call
    /\ ml_log = <<>>

InitLink ==
    InitModelLink /\ IdleWM /\ IdleCut /\ IdleCheck /\ IdleIter /\ IdleTrav
    /\ IdleData /\ IdleOps /\ IdleLnpost /\ IdleProj

NextLink ==
    \/ \E v \in BOOLEAN : SetMPICall(v)
    \/ \E v \in BOOLEAN : SetMultiCall(v)
    \/ \E prop \in {"get_MPI_call", "get_multi_call"} : ReadFlag(prop)

SpecLink == InitLink /\ [][NextLink]_vars

\* C40: reading MPI_call gives the value last assigned through its setter,
\* whatever multi_call is.
C40_MPICallReadsWhatWasSet ==
    [][(Len(ml_log') = Len(ml_log) + 1
          /\ ml_log'[Len(ml_log')].op = "get_MPI_call")
         => ml_log'[Len(ml_log')].val = ml_set]_vars

\* -------------------------------------------------------------------------
\* Pipeline._evaluate_sam_set: the collective calls of the ranks
\* -------------------------------------------------------------------------
\* Rank r has left the loop over the iterations (or never entered it).
LeftLoop(r) == tr_pc[r] \in {"post", "exit", "done"}

\* The collective calls of one iteration.
Collectives == {"gather", "barrier", "bcast"}

\* C34: without exceptions the traversal cannot deadlock: as long as a
\* rank has not returned some rank can take a step; a rank that has left
\* the loop has issued gather, barrier and broadcast in every iteration up
\* to its last one, no rank issues a collective call of a later iteration,
\* and all ranks leave the loop in the same iteration.
C34_RanksIssueTheSameCollectives ==
    /\ (\A r \in Ranks : tr_pc[r] \in {"done", "raised"}) \/ ENABLED NextTrav
    /\ \A r \in Ranks :
         LeftLoop(r)
           => /\ \A i \in 1..tr_i[r], ev \in Collectives : Did(ev, r, i)
              /\ \A q \in Ranks :
                   /\ tr_i[q] <= tr_i[r]
                   /\ LeftLoop(q) => tr_i[q] = tr_i[r]
                   /\ \A e \in tr_log :
                        e.r = q /\ e.ev \in Collectives => e.i <= tr_i[r]

\* C34, its case: every rank has returned from a traversal that the empty
\* index set ended after the first of two iterations.
C34_Witness ==
    /\ tr_in.emul_i = 2
    /\ \A r \in Ranks :
         /\ tr_pc[r] = "done"
         /\ tr_i[r] = 1
         /\ tr_idx[r] = {}
         /\ \A ev \in Collectives : Did(ev, r, 1)

\* -------------------------------------------------------------------------
\* Worker mode: termination
\* -------------------------------------------------------------------------
\* Every rank is a running process: a step that can be taken is taken.
SpecLive == Init /\ [][Next]_vars /\ WF_vars(Next)

\* Some rank is inside a with-statement.
SessionOpen == \E r \in Ranks : stack[r] # <<>>

\* Every rank is outside all with-statements, with _worker_mode 0.
SessionClosed ==
    \A r \in Ranks :
      /\ stack[r] = <<>>
      /\ status[r] = "run"
      /\ worker_mode[r] = 0

\* The controller's code inside a with-statement has raised.
ControllerRaised == status[Controller] # "run"

\* C35: a session in which the controller raises no exception ends on every
\* rank: from any state with a rank inside a with-statement a state is
\* reached in which all ranks have passed the closing barrier of the
\* outermost session and _worker_mode is 0 on all of them.
C35_SessionTerminatesOnEveryRank ==
    SessionOpen ~> (SessionClosed \/ ControllerRaised)

\* C35, its case: all ranks are past the closing barrier of a session in
\* which the workers executed a call that opened a session of its own.
C35_Witness ==
    /\ SessionClosed
    /\ \A r \in Ranks : n_sess[r] >= 2
    /\ \A w \in Workers : executed[w] # <<>>
    /\ \A w \in Workers : chan[w] = <<>>

\* -------------------------------------------------------------------------
\* The setter of Pipeline.impl_cut: the state it stores
\* -------------------------------------------------------------------------
\* C36: the cut-offs the setter stores for an iteration hold no wildcard
\* (0), start at the first non-zero entry of the list given, do not
\* increase, and cut_idx is at least 0 and below n_data_tot of the
\* iteration, which leaves _do_impl_check a row of values to compare.
C36_StoredCutoffStateIsWellFormed ==
    cut_res = "stored" =>
        LET c == impl_cut[emul_i]
            k == cut_idx[emul_i]
        IN /\ 0 <= k /\ k < n_data_tot
           /\ n_data_tot - k >= 1
           /\ c # <<>>
           /\ \A j \in 1..Len(c) : c[j] # 0
           /\ c[1] = cut_arg[k + 1]
           /\ \A j \in 1..k : cut_arg[j] = 0
           /\ \A j \in 1..(Len(c) - 1) : c[j] >= c[j + 1]

\* C36, its case: [0, 2, 1] is stored for an iteration of two data points
\* as [2, 1] with cut_idx 1, the last index the iteration has.
C36_Witness ==
    /\ cut_res = "stored"
    /\ cut_arg = <<0, 2, 1>>
    /\ n_data_tot = 2
    /\ impl_cut[emul_i] = <<2, 1>>
    /\ cut_idx[emul_i] = 1

EndsConstruction == op_pc[Controller] = "c_save" /\ op_pc'[Controller] # "c_save"

\* C38: when construct has constructed an iteration, the controller holds
\* it as not analyzed before an analysis starts: n_eval_sam and n_impl_sam
\* are 0, the plausible set is empty, and the cut-offs are those of the
\* parameters; n_eval_sam of an iteration turns non-zero only in the step
\* that ends an analyze of that iteration.
C38_ConstructedIterationIsNotAnalyzed ==
    [][/\ EndsConstruction
            => /\ Len(n_eval_sam') >= emul_i
               /\ n_eval_sam'[emul_i] = 0
               /\ n_impl_sam'[emul_i] = 0
               /\ impl_sam' = {}
               /\ impl_cut'[emul_i] = ParImplCut
               /\ cut_idx'[emul_i] = 0
               /\ op_pc'[Controller] \in {"idle", "a_check"}
       /\ \A i \in 1..Len(n_eval_sam') :
            /\ n_eval_sam'[i] # 0
            /\ i > Len(n_eval_sam) \/ n_eval_sam[i] = 0
            => EndsAnalyze(Controller) /\ i = emul_i]_vars

\* C38, its case: the first iteration has been constructed anew (force) by
\* the last of the calls and is held as not analyzed.
C38_Witness ==
    /\ op_in # <<>>
    /\ op_in.op = "construct"
    /\ op_in.i = 1
    /\ op_in.force
    /\ ~op_in.analyze
    /\ op_pc[Controller] = "idle"
    /\ op_res[Controller] = "ok"
    /\ n_eval_sam = <<0>>
    /\ n_impl_sam = <<0>>
    /\ impl_sam = {}
    /\ impl_cut = <<ParImplCut>>
    /\ op_n = MaxOps

\* -------------------------------------------------------------------------
\* Pipeline._evaluate_sam_set in 'evaluate' mode: emul_i_stop
\* -------------------------------------------------------------------------
\* The iterations in which the controller evaluated sample s.
EvaluatedIn(s) ==
    {e.i : e \in {d \in tr_log : d.ev = "eval" /\ d.r = Controller
                                   /\ s \in d.set}}

\* The iterations whose check sample s failed.
FailedIn(s) ==
    {e.i : e \in {d \in tr_log : d.ev = "check" /\ s \notin d.set}}

Highest(S) == CHOOSE i \in S : \A j \in S : j <= i

Lowest(S) == CHOOSE i \in S : \A j \in S : i <= j

\* C39: when the controller returns from a traversal in 'evaluate' mode,
\* emul_i_stop of a sample is the last iteration in which the sample was
\* evaluated: the target iteration for a sample that passed every check,
\* the first iteration whose check it failed for a rejected sample; it is
\* at least 1 and at most the target iteration.
C39_EmulIStopIsLastEvaluatedIteration ==
    tr_in.exec_code = "evaluate" /\ tr_pc[Controller] = "done"
      => \A s \in Samples :
           /\ emul_i_stop[s] \in 1..tr_in.emul_i
           /\ EvaluatedIn(s) # {}
           /\ emul_i_stop[s] = Highest(EvaluatedIn(s))
           /\ s \in tr_check => emul_i_stop[s] = tr_in.emul_i
           /\ s \notin tr_check
                => /\ FailedIn(s) # {}
                   /\ emul_i_stop[s] = Lowest(FailedIn(s))

\* C39, its case: of two samples evaluated up to iteration 2 the first was
\* rejected in iteration 1 and the second passed both checks.
C39_Witness ==
    /\ tr_in.exec_code = "evaluate"
    /\ tr_in.emul_i = 2
    /\ tr_pc[Controller] = "done"
    /\ tr_check = {2}
    /\ emul_i_stop[1] = 1
    /\ emul_i_stop[2] = 2

====
